---- MODULE Spec2Model ----
(***************************************************************************)
(* Signal curation pipeline of active-info-daily: dedupe_items,            *)
(* score_items, the novelty re-ranking and _render_and_store.              *)
(*                                                                         *)
(* Text is modelled as a sequence of one-character strings, so that the    *)
(* substring, case and punctuation rules of the code are computed and not  *)
(* assumed.  Scores are fixed-point numbers in thousandths (1.5 is 1500).  *)
(* A NewsItem is a record; its id field is the identity of the Python      *)
(* object (the position of the item in the input list).                    *)
(***************************************************************************)
EXTENDS Integers, Sequences, FiniteSets, TLC

VARIABLES
    pc,           \* position of the run
    all_items,    \* the raw input list (all_items of _render_and_store)
    unique,       \* dedupe_items: the unique list
    stats,        \* dedupe_items: raw_items / unique_items / duplicates_removed
    settings,     \* the Settings of the run (config.py)
    llm,          \* what the external scorer answers in this run
    scored,       \* score_items: the returned list
    store,        \* the reports table of ReportStorage: report_date -> row
    date_key,     \* the report date of the run
    recent,       \* _collect_recent_signatures: urls / titles / analysis_lines
    novelty,      \* penalty, max_reused_in_front and front_size of the re-ranking
    penalized,    \* _apply_repeat_penalty: the returned list
    ranked,       \* ranked of _render_and_store from _deprioritize_recent_urls on
    llm_items,    \* _shortlist_for_llm: the returned list
    calls,        \* what the reader, analyzer, curator and translator answer
    analyzed,     \* Analyzer.analyze: the returned AnalysisResult
    analysis,     \* analysis of _render_and_store
    translations, \* ReportTranslator.translate_markdown: the returned dict
    top_items,    \* the items build_markdown cites sources from
    factual_items, \* _append_refs: the returned lines
    cited_line,    \* the line handed to _find_related_source_refs
    cited_limit,   \* its limit
    source_refs,   \* the references it returned
    runs,          \* the runs of the pipeline against one store, by command
    cap_request,   \* items, source_name and cap handed to _cap_source_items
    capped,        \* _cap_source_items: the returned list
    payload,       \* _llm_score_items: the ids of the items sent to the external scorer
    force_attribution, \* force_source of _append_refs
    snapshot_row,  \* the row of a snapshot handed to _deserialize_item
    loaded_item    \* _deserialize_item: the returned item

vars == <<pc, all_items, unique, stats, settings, llm, scored, store, date_key, recent,
          novelty, penalized, ranked, llm_items, calls, analyzed, analysis, translations,
          top_items, factual_items, cited_line, cited_limit, source_refs,
          runs, cap_request, capped, payload, force_attribution, snapshot_row, loaded_item>>

-----------------------------------------------------------------------------
(* Bounds of the model *)

\* longest list of items given to dedupe_items, score_items and the re-ranking
MaxItems == 3

\* longest batch of a run of _render_and_store
MaxBatch == 2


\* longest batch given to score_items with an external scorer: above the
\* floor of 10 items that _llm_score_items sends
BigBatch == 12

\* longest list that reaches the re-ranking of _render_and_store: above the
\* front window of 15 items
LongList == 17

\* most reports in the store of a run that collects its history
MaxReports == 21

\* longest list of lines of a narrative section given to
\* _suppress_cross_report_repeats
MaxLines == 3

-----------------------------------------------------------------------------
(* Characters and strings *)

UpperLetters == <<"A", "B", "C", "D", "E", "F", "G", "H", "I", "J", "K", "L", "M",
                  "N", "O", "P", "Q", "R", "S", "T", "U", "V", "W", "X", "Y", "Z">>

LowerLetters == <<"a", "b", "c", "d", "e", "f", "g", "h", "i", "j", "k", "l", "m",
                  "n", "o", "p", "q", "r", "s", "t", "u", "v", "w", "x", "y", "z">>

Digits == {"0", "1", "2", "3", "4", "5", "6", "7", "8", "9"}

Range(f) == {f[i] : i \in DOMAIN f}

UpperSet == Range(UpperLetters)

LowerSet == Range(LowerLetters)

IsUpper(c) == c \in UpperSet

IsLower(c) == c \in LowerSet

IsAlpha(c) == IsUpper(c) \/ IsLower(c)

\* whitespace, the \s of re and of str.strip()
IsSpace(c) == c \in {" ", "\n", "\t"}

\* the \w of re
IsWord(c) == IsAlpha(c) \/ c \in Digits \/ c = "_"

\* str.lower(), one character
LowerOf == [c \in UpperSet |-> LowerLetters[CHOOSE i \in 1..26 : UpperLetters[i] = c]]

LowerChar(c) == IF IsUpper(c) THEN LowerOf[c] ELSE c

\* str.lower()
Lower(s) == [i \in 1..Len(s) |-> LowerChar(s[i])]

\* s[from:] with a 1-based from
Tail_(s, from) == SubSeq(s, from, Len(s))

\* key occurs in text at the 1-based position i
MatchAt(text, i, key) ==
    /\ i >= 1
    /\ i + Len(key) - 1 <= Len(text)
    /\ \A j \in 1..Len(key) : text[i + j - 1] = key[j]

\* Python's `key in text`
Contains(text, key) == \E i \in 1..(Len(text) - Len(key) + 1) : MatchAt(text, i, key)

\* text.startswith(key)
StartsWith(text, key) == MatchAt(text, 1, key)

\* first position >= i of a character of the set stop, Len(s) + 1 when there is none
RECURSIVE FindFirst(_, _, _)
FindFirst(s, i, stop) ==
    IF i > Len(s) THEN Len(s) + 1
    ELSE IF s[i] \in stop THEN i
    ELSE FindFirst(s, i + 1, stop)

\* " ".join(s.split()): whitespace runs collapsed, both ends trimmed
RECURSIVE CollapseSpaces(_, _, _)
CollapseSpaces(s, i, pending) ==
    IF i > Len(s) THEN <<>>
    ELSE IF IsSpace(s[i]) THEN CollapseSpaces(s, i + 1, TRUE)
    ELSE (IF pending THEN <<" ">> ELSE <<>>) \o <<s[i]>> \o CollapseSpaces(s, i + 1, FALSE)

SplitJoin(s) ==
    LET first == CHOOSE i \in 1..(Len(s) + 1) :
                     /\ (i <= Len(s) => ~IsSpace(s[i]))
                     /\ \A j \in 1..(i - 1) : IsSpace(s[j])
    IN  CollapseSpaces(s, first, FALSE)

\* str.strip()
Strip(s) ==
    LET keep == {i \in 1..Len(s) : ~IsSpace(s[i])}
    IN  IF keep = {} THEN <<>>
        ELSE SubSeq(s, CHOOSE i \in keep : \A j \in keep : i <= j,
                       CHOOSE i \in keep : \A j \in keep : i >= j)

\* s[:n]
Head_(s, n) == SubSeq(s, 1, IF n < Len(s) THEN n ELSE Len(s))

Max(a, b) == IF a >= b THEN a ELSE b

Min(a, b) == IF a <= b THEN a ELSE b

-----------------------------------------------------------------------------
(* dedupe.py *)

HttpPrefix == <<"h", "t", "t", "p", ":", "/", "/">>

HttpsPrefix == <<"h", "t", "t", "p", "s", ":", "/", "/">>

\* length of the text the pattern https?://\S+ matches at position i, 0 for no match
UrlMatchLen(s, i) ==
    LET p == IF MatchAt(s, i, HttpPrefix) THEN 7
             ELSE IF MatchAt(s, i, HttpsPrefix) THEN 8
             ELSE 0
        stop == FindFirst(s, i + p, {" "})
    IN  IF p = 0 \/ stop = i + p THEN 0 ELSE stop - i

\* re.sub(r"https?://\S+", " ", s)
RECURSIVE StripUrls(_, _)
StripUrls(s, i) ==
    IF i > Len(s) THEN <<>>
    ELSE IF UrlMatchLen(s, i) > 0 THEN <<" ">> \o StripUrls(s, i + UrlMatchLen(s, i))
    ELSE <<s[i]>> \o StripUrls(s, i + 1)

\* re.sub(r"[^\w\s]", " ", s)
StripPunctuation(s) == [i \in 1..Len(s) |-> IF IsWord(s[i]) \/ IsSpace(s[i]) THEN s[i] ELSE " "]

_normalize_title(title) == SplitJoin(StripPunctuation(StripUrls(Lower(title), 1)))

SchemeChars == UpperSet \cup LowerSet \cup Digits \cup {"+", "-", "."}

\* urlparse(url): the url is scheme ":" rest when the text before the first colon
\* is a scheme name; rest is "//" netloc path, the netloc ending at the first of
\* "/", "?", "#" and the path at the first of "?", "#"
UrlParse(url) ==
    LET colon     == FindFirst(url, 1, {":"})
        hasScheme == /\ colon > 1
                     /\ colon <= Len(url)
                     /\ IsAlpha(url[1])
                     /\ \A j \in 1..(colon - 1) : url[j] \in SchemeChars
        scheme    == IF hasScheme THEN Lower(SubSeq(url, 1, colon - 1)) ELSE <<>>
        rest      == IF hasScheme THEN Tail_(url, colon + 1) ELSE url
        hasNetloc == StartsWith(rest, <<"/", "/">>)
        netEnd    == IF hasNetloc THEN FindFirst(rest, 3, {"/", "?", "#"}) ELSE 1
        netloc    == IF hasNetloc THEN SubSeq(rest, 3, netEnd - 1) ELSE <<>>
        pathEnd   == FindFirst(rest, netEnd, {"?", "#"})
    IN  [scheme |-> scheme, netloc |-> netloc, path |-> SubSeq(rest, netEnd, pathEnd - 1)]

\* s.rstrip("/")
RECURSIVE RStripSlash(_)
RStripSlash(s) ==
    IF Len(s) > 0 /\ s[Len(s)] = "/" THEN RStripSlash(SubSeq(s, 1, Len(s) - 1)) ELSE s

_canonical_url(url) ==
    IF url = <<>> THEN <<>>
    ELSE LET parsed == UrlParse(url)
         IN  IF parsed.scheme = <<>> \/ parsed.netloc = <<>> THEN <<>>
             ELSE Lower(parsed.netloc) \o Lower(RStripSlash(parsed.path))

\* length of the common run of a from i and b from j, inside a[..ahi] and b[..bhi]
RECURSIVE CommonRun(_, _, _, _, _, _)
CommonRun(a, i, ahi, b, j, bhi) ==
    IF i > ahi \/ j > bhi \/ a[i] # b[j] THEN 0
    ELSE 1 + CommonRun(a, i + 1, ahi, b, j + 1, bhi)

\* SequenceMatcher.find_longest_match on a[alo..ahi], b[blo..bhi] (no junk: the
\* autojunk heuristic needs 200 characters): the longest block, of those the one
\* starting earliest in a, of those the one starting earliest in b
FindLongestMatch(a, alo, ahi, b, blo, bhi) ==
    LET blocks == {<<i, j, CommonRun(a, i, ahi, b, j, bhi)>> : i \in alo..ahi, j \in blo..bhi}
        best   == CHOOSE x \in blocks :
                      \A y \in blocks :
                          \/ x[3] > y[3]
                          \/ x[3] = y[3] /\ x[1] < y[1]
                          \/ x[3] = y[3] /\ x[1] = y[1] /\ x[2] <= y[2]
    IN  IF blocks = {} THEN <<alo, blo, 0>> ELSE best

\* sum of the sizes of SequenceMatcher.get_matching_blocks
RECURSIVE MatchingSize(_, _, _, _, _, _)
MatchingSize(a, alo, ahi, b, blo, bhi) ==
    LET m == FindLongestMatch(a, alo, ahi, b, blo, bhi)
    IN  IF m[3] = 0 THEN 0
        ELSE m[3] + MatchingSize(a, alo, m[1] - 1, b, blo, m[2] - 1)
                  + MatchingSize(a, m[1] + m[3], ahi, b, m[2] + m[3], bhi)

\* SequenceMatcher(None, a, b).ratio() >= pct / 100
RatioAtLeast(a, b, pct) ==
    LET total == Len(a) + Len(b)
    IN  IF total = 0 THEN TRUE
        ELSE 200 * MatchingSize(a, 1, Len(a), b, 1, Len(b)) >= pct * total

TitleSimilarityPct == 93

\* the tests of _is_duplicate on the canonical urls and the normalized titles
\* the tests of _is_duplicate without the guard on empty titles
SameSignal_empty_titles_equal(a_url, b_url, a_title, b_title) ==
    IF a_url # <<>> /\ b_url # <<>> /\ a_url = b_url THEN TRUE
    ELSE IF a_title = b_title THEN TRUE
    ELSE RatioAtLeast(a_title, b_title, TitleSimilarityPct)

SameSignal(a_url, b_url, a_title, b_title) ==
    IF a_url # <<>> /\ b_url # <<>> /\ a_url = b_url THEN TRUE
    ELSE IF a_title = <<>> \/ b_title = <<>> THEN FALSE
    ELSE IF a_title = b_title THEN TRUE
    ELSE RatioAtLeast(a_title, b_title, TitleSimilarityPct)

_is_duplicate(a, b) ==
    SameSignal(_canonical_url(a.url), _canonical_url(b.url),
               _normalize_title(a.title), _normalize_title(b.title))

\* the smallest index of a set of indexes, 0 for the empty set
FirstIndex(found) ==
    IF found = {} THEN 0 ELSE CHOOSE idx \in found : \A k \in found : idx <= k

\* index of the first unique item that item duplicates, 0 for none (dup_index)
DupIndex(item, uniq) == FirstIndex({idx \in 1..Len(uniq) : _is_duplicate(item, uniq[idx])})

\* a field merge that takes the summary of the duplicate on equal length too
MergeInto_latest_on_ties(existing, item) ==
    [existing EXCEPT
        !.summary = IF Len(item.summary) >= Len(existing.summary) THEN item.summary ELSE @,
        !.url = IF existing.url = <<>> /\ item.url # <<>> THEN item.url ELSE @,
        !.published_at = IF item.published_at # 0
                            /\ (existing.published_at = 0 \/ item.published_at > existing.published_at)
                         THEN item.published_at ELSE @]

\* the field merge of a duplicate into the surviving item; published_at 0 is None
MergeInto(existing, item) ==
    [existing EXCEPT
        !.summary = IF Len(item.summary) > Len(existing.summary) THEN item.summary ELSE @,
        !.url = IF existing.url = <<>> /\ item.url # <<>> THEN item.url ELSE @,
        !.published_at = IF item.published_at # 0
                            /\ (existing.published_at = 0 \/ item.published_at > existing.published_at)
                         THEN item.published_at ELSE @]

\* a pass of the loop that keeps the latest item of a duplicate group
DedupeStep_keep_latest(item, dup, r) ==
    IF dup = 0 THEN [r EXCEPT !.unique = Append(@, item)]
    ELSE [unique             |-> [r.unique EXCEPT ![dup] = MergeInto(item, @)],
          duplicates_removed |-> r.duplicates_removed + 1]

\* one pass of the loop of dedupe_items over r = (unique, duplicates_removed):
\* the item is appended when dup is 0, merged into unique[dup] otherwise
DedupeStep(item, dup, r) ==
    IF dup = 0 THEN [r EXCEPT !.unique = Append(@, item)]
    ELSE [unique             |-> [r.unique EXCEPT ![dup] = MergeInto(@, item)],
          duplicates_removed |-> r.duplicates_removed + 1]

\* the loop of dedupe_items from item k on
RECURSIVE DedupeLoop(_, _, _)
DedupeLoop(items, k, r) ==
    IF k > Len(items) THEN r
    ELSE DedupeLoop(items, k + 1, DedupeStep(items[k], DupIndex(items[k], r.unique), r))

\* the pair dedupe_items returns
DedupeResult(items, r) ==
    [unique |-> r.unique,
     stats  |-> [raw_items          |-> Len(items),
                 unique_items       |-> Len(r.unique),
                 duplicates_removed |-> r.duplicates_removed]]

dedupe_items(items) ==
    DedupeResult(items, DedupeLoop(items, 1, [unique |-> <<>>, duplicates_removed |-> 0]))

-----------------------------------------------------------------------------
(* scoring.py *)

AI_BREAKTHROUGH ==
    { <<"b", "r", "e", "a", "k", "t", "h", "r", "o", "u", "g", "h">>,
      <<"s", "t", "a", "t", "e", "-", "o", "f", "-", "t", "h", "e", "-", "a", "r", "t">>,
      <<"s", "o", "t", "a">>,
      <<"f", "o", "u", "n", "d", "a", "t", "i", "o", "n", " ", "m", "o", "d", "e", "l">>,
      <<"a", "g", "e", "n", "t">>,
      <<"r", "e", "a", "s", "o", "n", "i", "n", "g">>,
      <<"i", "n", "f", "e", "r", "e", "n", "c", "e">>,
      <<"c", "h", "i", "p">>,
      <<"s", "e", "m", "i", "c", "o", "n", "d", "u", "c", "t", "o", "r">>,
      <<"o", "p", "e", "n", " ", "s", "o", "u", "r", "c", "e", " ", "m", "o", "d", "e", "l">> }

WEB3_SIGNAL ==
    { <<"w", "e", "b", "3">>,
      <<"b", "l", "o", "c", "k", "c", "h", "a", "i", "n">>,
      <<"c", "r", "y", "p", "t", "o">>,
      <<"b", "i", "t", "c", "o", "i", "n">>,
      <<"e", "t", "h", "e", "r", "e", "u", "m">>,
      <<"s", "o", "l", "a", "n", "a">>,
      <<"l", "a", "y", "e", "r", " ", "2">>,
      <<"r", "o", "l", "l", "u", "p">>,
      <<"d", "e", "f", "i">>,
      <<"t", "o", "k", "e", "n", "i", "z", "a", "t", "i", "o", "n">>,
      <<"s", "t", "a", "b", "l", "e", "c", "o", "i", "n">>,
      <<"s", "t", "a", "k", "i", "n", "g">>,
      <<"o", "n", "c", "h", "a", "i", "n">>,
      <<"w", "a", "l", "l", "e", "t">> }

POWER_TRADING_SIGNAL ==
    { <<"p", "o", "w", "e", "r", " ", "t", "r", "a", "d", "i", "n", "g">>,
      <<"e", "l", "e", "c", "t", "r", "i", "c", "i", "t", "y", " ", "m", "a", "r", "k", "e", "t">>,
      <<"p", "o", "w", "e", "r", " ", "m", "a", "r", "k", "e", "t">>,
      <<"g", "r", "i", "d">>,
      <<"t", "r", "a", "n", "s", "m", "i", "s", "s", "i", "o", "n">>,
      <<"c", "o", "n", "g", "e", "s", "t", "i", "o", "n">>,
      <<"l", "m", "p">>,
      <<"l", "o", "c", "a", "t", "i", "o", "n", "a", "l", " ", "m", "a", "r", "g", "i", "n", "a", "l", " ", "p", "r", "i", "c", "e">>,
      <<"c", "a", "p", "a", "c", "i", "t", "y", " ", "m", "a", "r", "k", "e", "t">>,
      <<"a", "n", "c", "i", "l", "l", "a", "r", "y", " ", "s", "e", "r", "v", "i", "c", "e", "s">>,
      <<"d", "e", "m", "a", "n", "d", " ", "r", "e", "s", "p", "o", "n", "s", "e">>,
      <<"c", "u", "r", "t", "a", "i", "l", "m", "e", "n", "t">>,
      <<"i", "n", "t", "e", "r", "c", "o", "n", "n", "e", "c", "t", "i", "o", "n">>,
      <<"p", "p", "a">>,
      <<"b", "a", "t", "t", "e", "r", "y", " ", "s", "t", "o", "r", "a", "g", "e">>,
      <<"e", "r", "c", "o", "t">>,
      <<"p", "j", "m">>,
      <<"c", "a", "i", "s", "o">> }

INVESTMENT_POSITIVE ==
    { <<"p", "r", "o", "f", "i", "t">>,
      <<"g", "u", "i", "d", "a", "n", "c", "e", " ", "r", "a", "i", "s", "e">>,
      <<"b", "e", "a", "t", " ", "e", "s", "t", "i", "m", "a", "t", "e", "s">>,
      <<"r", "e", "c", "o", "r", "d", " ", "r", "e", "v", "e", "n", "u", "e">>,
      <<"a", "p", "p", "r", "o", "v", "a", "l">>,
      <<"c", "o", "n", "t", "r", "a", "c", "t", " ", "w", "i", "n">>,
      <<"p", "a", "r", "t", "n", "e", "r", "s", "h", "i", "p">>,
      <<"b", "a", "c", "k", "l", "o", "g">>,
      <<"b", "u", "y", "b", "a", "c", "k">>,
      <<"e", "x", "p", "a", "n", "s", "i", "o", "n">>,
      <<"a", "d", "o", "p", "t", "i", "o", "n">>,
      <<"1", "0", "-", "q">>,
      <<"1", "0", "-", "k">>,
      <<"8", "-", "k">>,
      <<"f", "i", "l", "e", "d">>,
      <<"e", "t", "f">>,
      <<"m", "a", "i", "n", "n", "e", "t">>,
      <<"t", "v", "l">>,
      <<"i", "n", "s", "t", "i", "t", "u", "t", "i", "o", "n", "a", "l", " ", "a", "d", "o", "p", "t", "i", "o", "n">>,
      <<"o", "n", "c", "h", "a", "i", "n", " ", "v", "o", "l", "u", "m", "e">>,
      <<"p", "p", "a">>,
      <<"c", "a", "p", "a", "c", "i", "t", "y", " ", "a", "u", "c", "t", "i", "o", "n">>,
      <<"a", "n", "c", "i", "l", "l", "a", "r", "y", " ", "s", "e", "r", "v", "i", "c", "e", "s">>,
      <<"i", "n", "t", "e", "r", "c", "o", "n", "n", "e", "c", "t", "i", "o", "n", " ", "a", "p", "p", "r", "o", "v", "a", "l">> }

OVERLOOKED_SIGNAL ==
    { <<"p", "o", "l", "i", "c", "y">>,
      <<"i", "n", "f", "r", "a", "s", "t", "r", "u", "c", "t", "u", "r", "e">>,
      <<"r", "e", "g", "u", "l", "a", "t", "i", "o", "n">>,
      <<"s", "u", "p", "p", "l", "y", " ", "c", "h", "a", "i", "n">>,
      <<"t", "a", "l", "e", "n", "t">>,
      <<"h", "i", "r", "i", "n", "g">>,
      <<"p", "i", "l", "o", "t">>,
      <<"s", "t", "a", "n", "d", "a", "r", "d">>,
      <<"b", "e", "n", "c", "h", "m", "a", "r", "k">>,
      <<"g", "r", "i", "d", " ", "b", "o", "t", "t", "l", "e", "n", "e", "c", "k">>,
      <<"t", "r", "a", "n", "s", "m", "i", "s", "s", "i", "o", "n", " ", "q", "u", "e", "u", "e">>,
      <<"c", "u", "r", "t", "a", "i", "l", "m", "e", "n", "t">>,
      <<"c", "o", "n", "g", "e", "s", "t", "i", "o", "n">> }

NEGATIVE_SIGNAL ==
    { <<"f", "r", "a", "u", "d">>,
      <<"l", "a", "w", "s", "u", "i", "t">>,
      <<"p", "r", "o", "b", "e">>,
      <<"i", "n", "v", "e", "s", "t", "i", "g", "a", "t", "i", "o", "n">>,
      <<"l", "a", "y", "o", "f", "f">>,
      <<"c", "u", "t", "s", " ", "j", "o", "b", "s">>,
      <<"m", "i", "s", "s", " ", "e", "s", "t", "i", "m", "a", "t", "e", "s">>,
      <<"d", "o", "w", "n", "g", "r", "a", "d", "e">>,
      <<"b", "a", "n", "k", "r", "u", "p", "t", "c", "y">>,
      <<"r", "e", "c", "a", "l", "l">> }

SignalCategories ==
    { <<"a", "i">>,
      <<"i", "t">>,
      <<"w", "e", "b", "3">>,
      <<"p", "o", "w", "e", "r", "_", "t", "r", "a", "d", "i", "n", "g">>,
      <<"e", "a", "r", "n", "i", "n", "g", "s">>,
      <<"p", "r", "e", "d", "i", "c", "t", "i", "o", "n", "_", "m", "a", "r", "k", "e", "t">> }

\* the number of keywords of the set that occur in the text (each counted once)
_count_keywords(text, keywords) ==
    LET lowered == Lower(text)
    IN  Cardinality({key \in keywords : Contains(lowered, key)})

\* f"{item.title} {item.summary} {item.category}".lower()
ScoreBlob(item) == Lower(item.title \o <<" ">> \o item.summary \o <<" ">> \o item.category)

\* the per-hit weight of a negative keyword, in thousandths
NegativeWeight == 1800

\* the local score, in thousandths
_heuristic_score(item) ==
    LET blob         == ScoreBlob(item)
        ai_score     == _count_keywords(blob, AI_BREAKTHROUGH) * 1500
        web3_score   == _count_keywords(blob, WEB3_SIGNAL) * 1350
        power_score  == _count_keywords(blob, POWER_TRADING_SIGNAL) * 1300
        invest_score == _count_keywords(blob, INVESTMENT_POSITIVE) * 1400
        trend_score  == _count_keywords(blob, OVERLOOKED_SIGNAL) * 1200
        risk_penalty == _count_keywords(blob, NEGATIVE_SIGNAL) * NegativeWeight
        base         == IF item.category \in SignalCategories THEN 1000 ELSE 0
    IN  ai_score + web3_score + power_score + invest_score + trend_score + base - risk_penalty

\* list.sort(key=lambda x: x.score, reverse=True): a stable sort, so the item at
\* position i lands behind every item of higher score and behind the items of
\* equal score that precede it
\* the place of an unstable sort: items of equal score in reverse input order
SortedPosition_unstable(s, i) ==
    1 + Cardinality({j \in 1..Len(s) : s[j].score > s[i].score})
      + Cardinality({j \in (i + 1)..Len(s) : s[j].score = s[i].score})

SortedPosition(s, i) ==
    1 + Cardinality({j \in 1..Len(s) : s[j].score > s[i].score})
      + Cardinality({j \in 1..(i - 1) : s[j].score = s[i].score})

SortByScoreDesc(s) ==
    LET rows == s \o <<>>
    IN  [p \in 1..Len(rows) |-> rows[CHOOSE i \in 1..Len(rows) : SortedPosition(rows, i) = p]]

\* the items of s without repetition, in order of first occurrence
RECURSIVE UniqueNonEmpty(_, _, _)
UniqueNonEmpty(s, i, acc) ==
    IF i > Len(s) THEN acc
    ELSE IF s[i] # "" /\ s[i] \notin Range(acc) THEN UniqueNonEmpty(s, i + 1, Append(acc, s[i]))
    ELSE UniqueNonEmpty(s, i + 1, acc)

_model_candidates(provider, model, deepseek_strict_model) ==
    IF provider = "deepseek"
    THEN IF deepseek_strict_model
         THEN (IF model # "" THEN <<model>> ELSE <<"deepseek-reasoner">>)
         ELSE UniqueNonEmpty(<<model, "deepseek-reasoner", "deepseek-chat">>, 1, <<>>)
    ELSE IF model # "" THEN <<model>> ELSE <<>>

\* the loop over the candidate models around client.chat.completions.create:
\* a "Model Not Exist" error moves on to the next candidate, any other error is
\* raised, and no completion at the end is a RuntimeError
RECURSIVE TryCandidates(_, _, _)
TryCandidates(candidates, i, reply) ==
    IF i > Len(candidates) THEN "raise"
    ELSE IF candidates[i] \in reply.unknown_models THEN TryCandidates(candidates, i + 1, reply)
    ELSE IF reply.error THEN "raise"
    ELSE "completion"

\* JSON values of a reply: a number, a value float() raises on, an absent key
Num(v) == [kind |-> "num", v |-> v]

Bad == [kind |-> "bad", v |-> 0]

Missing == [kind |-> "missing", v |-> 0]

\* a JSON value read as a number: float(value), the default when it raises
_safe_float(value, default) == IF value.kind = "num" THEN value.v ELSE default

\* row.get(key, default) followed by _safe_float(.., default2)
GetFloat(value, getDefault, floatDefault) ==
    IF value.kind = "missing" THEN getDefault ELSE _safe_float(value, floatDefault)

_clamp(num, lo, hi) == IF num < lo THEN lo ELSE IF num > hi THEN hi ELSE num

\* round(n / 10) to the nearest integer, halves to even: round(total, 3) on
\* thousandths
RoundDiv10(n) ==
    LET q == n \div 10
        r == n % 10
    IN  IF r < 5 THEN q
        ELSE IF r > 5 THEN q + 1
        ELSE IF q % 2 = 0 THEN q ELSE q + 1

\* the score one row of the reply gives, in thousandths
RowTotal(row) ==
    LET positive      == _clamp(GetFloat(row.positive, 0, 0), 0, 2000)
        incremental   == _clamp(GetFloat(row.incremental, 0, 0), 0, 2000)
        innovation    == _clamp(GetFloat(row.innovation, 0, 0), 0, 3000)
        investability == _clamp(GetFloat(row.investability, 0, 0), 0, 2000)
        verifiability == _clamp(GetFloat(row.verifiability, 0, 0), 0, 1000)
        summed        == positive + incremental + innovation + investability + verifiability
        model_total   == _clamp(GetFloat(row.total, summed, summed), 0, 10000)
    IN  IF row.keep THEN RoundDiv10(summed * 8 + model_total * 2) ELSE 0

\* the row is a dict whose id converts to an integer > 0
RowUsable(row) == row.is_dict /\ row.id.kind = "num" /\ row.id.v > 0

\* llm_score_by_id: a later row of the same id replaces an earlier one
RECURSIVE LlmScoreById(_, _, _)
LlmScoreById(rows, k, acc) ==
    IF k > Len(rows) THEN acc
    ELSE IF RowUsable(rows[k])
         THEN LlmScoreById(rows, k + 1, (rows[k].id.v :> RowTotal(rows[k])) @@ acc)
         ELSE LlmScoreById(rows, k + 1, acc)

\* max_items of _llm_score_items
LlmMaxItems(items, settings_) ==
    LET configured == IF settings_.llm_scoring_max_items = 0 THEN 80
                      ELSE settings_.llm_scoring_max_items
        smaller    == IF configured < Len(items) THEN configured ELSE Len(items)
    IN  IF smaller < 10 THEN 10 ELSE smaller

\* the positions (ids of the payload) of the items sent to the external scorer
SentIds(items, settings_) ==
    LET n        == Len(items)
        local    == [k \in 1..n |-> [idx |-> k, score |-> _heuristic_score(items[k])]]
        byScore  == SortByScoreDesc(local)
        maxItems == LlmMaxItems(items, settings_)
    IN  IF n > maxItems THEN {byScore[p].idx : p \in 1..maxItems} ELSE 1..n

\* the result of _llm_score_items: "none" for a None return, "raise" for an
\* exception, "scored" with the sorted list
_llm_score_items(items, settings_, reply) ==
    LET provider == settings_.analysis_provider
        key      == IF provider = "openai" THEN settings_.openai_api_key
                    ELSE settings_.deepseek_api_key
        model    == IF provider = "openai" THEN settings_.openai_model
                    ELSE settings_.deepseek_model
        cands    == _model_candidates(provider, model, settings_.deepseek_strict_model)
        by_id    == LlmScoreById(reply.rows, 1, <<>>)
        scored_  == [k \in 1..Len(items) |->
                        [items[k] EXCEPT !.score = IF k \in DOMAIN by_id THEN by_id[k]
                                                   ELSE _heuristic_score(items[k])]]
    IN  IF ~settings_.llm_scoring_enabled THEN [kind |-> "none", items |-> <<>>]
        ELSE IF provider \notin {"openai", "deepseek"} THEN [kind |-> "none", items |-> <<>>]
        ELSE IF ~reply.openai_installed THEN [kind |-> "none", items |-> <<>>]
        ELSE IF key = "" THEN [kind |-> "none", items |-> <<>>]
        ELSE IF items = <<>> THEN [kind |-> "none", items |-> <<>>]
        ELSE IF TryCandidates(cands, 1, reply) = "raise" THEN [kind |-> "raise", items |-> <<>>]
        ELSE IF reply.content # "scores" THEN [kind |-> "none", items |-> <<>>]
        ELSE [kind |-> "scored", items |-> SortByScoreDesc(scored_)]

\* whether _llm_score_items reaches client.chat.completions.create
LlmCalled(items, settings_, reply) ==
    /\ settings_.given
    /\ settings_.llm_scoring_enabled
    /\ settings_.analysis_provider \in {"openai", "deepseek"}
    /\ reply.openai_installed
    /\ (IF settings_.analysis_provider = "openai" THEN settings_.openai_api_key
        ELSE settings_.deepseek_api_key) # ""
    /\ items # <<>>

\* the scoring of the local path
LocalScored(items) ==
    SortByScoreDesc([k \in 1..Len(items) |-> [items[k] EXCEPT !.score = _heuristic_score(items[k])]])

\* score_items without the local path after a failed external call: the items
\* come back as they are
score_items_without_fallback(items, settings_, reply) ==
    IF settings_.given /\ _llm_score_items(items, settings_, reply).kind = "scored"
                      /\ _llm_score_items(items, settings_, reply).items # <<>>
    THEN _llm_score_items(items, settings_, reply).items
    ELSE IF LlmCalled(items, settings_, reply) THEN items
    ELSE LocalScored(items)

\* score_items(items, settings) with the reply the external scorer gives
score_items(items, settings_, reply) ==
    LET llm_ranked == _llm_score_items(items, settings_, reply)
    IN  IF settings_.given /\ llm_ranked.kind = "scored" /\ llm_ranked.items # <<>>
        THEN llm_ranked.items
        ELSE LocalScored(items)

-----------------------------------------------------------------------------
(* pipeline.py: the historical signatures and the novelty re-ranking *)

\* A character outside ASCII is written by its code point.  These are the
\* full-width "(", ")" and ":" and the two characters of the word "source".
FullwidthLeftParen == "U+FF08"

FullwidthRightParen == "U+FF09"

FullwidthColon == "U+FF1A"

Cjk_6765 == "U+6765"

Cjk_6E90 == "U+6E90"

\* the characters of U+4E00..U+9FFF that texts of the model are written with
CjkChars ==
    { "U+4E0A", "U+4E0B", "U+4E2D", "U+4E8C", "U+4E8F", "U+4EA4", "U+4EE3", "U+4F18",
      "U+4F1A", "U+4F5C", "U+4FE1", "U+505A", "U+50A8", "U+5148", "U+5171", "U+5173",
      "U+5206", "U+521B", "U+529B", "U+52BF", "U+5316", "U+5347", "U+53F7", "U+5408",
      "U+5458", "U+5730", "U+57FA", "U+589E", "U+5904", "U+5C55", "U+5E01", "U+5E76",
      "U+5EFA", "U+5F0F", "U+5F20", "U+6269", "U+626B", "U+635F", "U+63CF", "U+63D0",
      "U+6587", "U+65B0", "U+65BD", "U+6613", "U+66B4", "U+673A", "U+6761", "U+6765",
      "U+6781", "U+67E5", "U+6A21", "U+6B21", "U+6CE8", "U+6E90", "U+6ED1", "U+7535",
      "U+76EE", "U+7834", "U+7840", "U+79EF", "U+7A81", "U+7EA7", "U+7EC4", "U+7F51",
      "U+7F5A", "U+80FD", "U+8303", "U+843D", "U+88C1", "U+8BAE", "U+8BBC", "U+8BBE",
      "U+8BC1", "U+8BC9", "U+8C03", "U+8D8B", "U+8DCC", "U+8FDB", "U+901F", "U+91CD",
      "U+91CF", "U+94FE", "U+957F", "U+9996", "U+9A8C", "U+9AD8" }

\* re.sub(open + ".*?" + close, "", s) for a one-character close: from the
\* left, each occurrence of one of the opens up to the nearest close is cut,
\* unless a line break comes first ("." matches no line break)
RECURSIVE RemoveTagged(_, _, _, _)
RemoveTagged(s, i, opens, close) ==
    IF i > Len(s) THEN <<>>
    ELSE LET hits == {o \in opens : MatchAt(s, i, o)}
         IN  IF hits = {} THEN <<s[i]>> \o RemoveTagged(s, i + 1, opens, close)
             ELSE LET from == i + Len(CHOOSE o \in hits : TRUE)
                      stop == FindFirst(s, from, {close, "\n"})
                  IN  IF stop <= Len(s) /\ s[stop] = close
                      THEN RemoveTagged(s, stop + 1, opens, close)
                      ELSE <<s[i]>> \o RemoveTagged(s, i + 1, opens, close)

\* the character class [a-z0-9\u4e00-\u9fff]
IsSignatureChar(c) == IsLower(c) \/ c \in Digits \/ c \in CjkChars

_normalize_text_signature(text) ==
    LET cleaned == Lower(Strip(text))
        no_cn == RemoveTagged(cleaned, 1,
                     { <<FullwidthLeftParen, Cjk_6765, Cjk_6E90, ":">>,
                       <<FullwidthLeftParen, Cjk_6765, Cjk_6E90, FullwidthColon>> },
                     FullwidthRightParen)
        no_en == RemoveTagged(no_cn, 1, {<<"(", "s", "o", "u", "r", "c", "e", ":">>}, ")")
    IN  SelectSeq(no_en, IsSignatureChar)

\* the elements of a finite set of integers, largest first
RECURSIVE Descending(_)
Descending(S) ==
    IF S = {} THEN <<>>
    ELSE LET m == CHOOSE x \in S : \A y \in S : y <= x
         IN  <<m>> \o Descending(S \ {m})

\* ReportStorage.list_reports: the stored report dates, latest first
list_reports(store_, limit) == Head_(Descending(DOMAIN store_), limit)

NoRecent == [urls |-> {}, titles |-> {}, analysis_lines |-> {}]

\* the four narrative sections of an AnalysisResult, in the order of the code
NarrativeLines(analysis_) ==
    analysis_.breakthroughs \o analysis_.investment_signals
        \o analysis_.overlooked_trends \o analysis_.watchlist

\* the signatures one stored report contributes
ReportSignatures(report) ==
    [urls |-> {Strip(it.url) : it \in {x \in Range(report.top_items) : Strip(x.url) # <<>>}},
     titles |-> {_normalize_text_signature(Strip(it.title)) :
                    it \in {x \in Range(report.top_items) : Strip(x.title) # <<>>}},
     analysis_lines |-> {_normalize_text_signature(Strip(line)) :
                            line \in Range(NarrativeLines(report.analysis))} \ {<<>>}]

_collect_recent_signatures(store_, date_key_, lookback_reports) ==
    IF lookback_reports <= 0 THEN NoRecent
    ELSE LET rows == list_reports(store_, Max(20, lookback_reports * 6))
             picked == Head_(SelectSeq(rows, LAMBDA d : d < date_key_), lookback_reports)
             sigs == {ReportSignatures(store_[d]) : d \in Range(picked)}
         IN  [urls |-> UNION {g.urls : g \in sigs},
              titles |-> UNION {g.titles : g \in sigs},
              analysis_lines |-> UNION {g.analysis_lines : g \in sigs}]

\* penalty * 0.7, the penalty being in thousandths
TitlePenaltyShare == 7

\* the whole penalty for a repeated title
TitlePenalty_whole(penalty) == penalty

TitlePenalty(penalty) == (penalty * TitlePenaltyShare) \div 10

UrlRepeated(item, repeated_urls) == item.url # <<>> /\ item.url \in repeated_urls

TitleRepeated(item, repeated_titles) ==
    LET title_sig == _normalize_text_signature(item.title)
    IN  title_sig # <<>> /\ title_sig \in repeated_titles

\* a penalty step that takes the penalty off every item, repeated or not
_apply_repeat_penalty_unconditional(ranked_, repeated_urls, repeated_titles, penalty) ==
    IF penalty <= 0 THEN ranked_
    ELSE SortByScoreDesc([k \in 1..Len(ranked_) |-> [ranked_[k] EXCEPT !.score = @ - penalty]])

\* a penalty step that drops the items with a repeated URL
_apply_repeat_penalty_dropping(ranked_, repeated_urls, repeated_titles, penalty) ==
    IF penalty <= 0 THEN ranked_
    ELSE SelectSeq(ranked_, LAMBDA item : ~UrlRepeated(item, repeated_urls))

_apply_repeat_penalty(ranked_, repeated_urls, repeated_titles, penalty) ==
    IF penalty <= 0 THEN ranked_
    ELSE SortByScoreDesc(
             [k \in 1..Len(ranked_) |->
                 [ranked_[k] EXCEPT !.score =
                     @ - (IF UrlRepeated(ranked_[k], repeated_urls) THEN penalty ELSE 0)
                       - (IF TitleRepeated(ranked_[k], repeated_titles)
                          THEN TitlePenalty(penalty) ELSE 0)]])

\* the first loop of _deprioritize_recent_urls, from the item k on
RECURSIVE FrontLoop(_, _, _, _, _, _, _)
FrontLoop(ranked_, k, repeated_urls, max_reused_in_front, front_target, front, overflow) ==
    IF k > Len(ranked_) THEN [front |-> front, overflow |-> overflow]
    ELSE LET item == ranked_[k]
             is_reused == UrlRepeated(item, repeated_urls)
             reused_count == Cardinality({i \in 1..Len(front) : UrlRepeated(front[i], repeated_urls)})
         IN  IF Len(front) < front_target /\ ~(is_reused /\ reused_count >= max_reused_in_front)
             THEN FrontLoop(ranked_, k + 1, repeated_urls, max_reused_in_front, front_target,
                            Append(front, item), overflow)
             ELSE FrontLoop(ranked_, k + 1, repeated_urls, max_reused_in_front, front_target,
                            front, Append(overflow, item))

\* no front window at all
_deprioritize_recent_urls_uncapped(ranked_, repeated_urls, max_reused_in_front, front_size_) == ranked_

\* a re-ranking that puts the repeated items first
_deprioritize_recent_urls_repeats_first(ranked_, repeated_urls, max_reused_in_front, front_size_) ==
    SelectSeq(ranked_, LAMBDA item : UrlRepeated(item, repeated_urls))
        \o SelectSeq(ranked_, LAMBDA item : ~UrlRepeated(item, repeated_urls))

\* a backfill that puts the deferred items before the front
_deprioritize_recent_urls_backfill_first(ranked_, repeated_urls, max_reused_in_front, front_size_) ==
    IF ranked_ = <<>> \/ repeated_urls = {} THEN ranked_
    ELSE IF max_reused_in_front < 0 THEN ranked_
    ELSE FrontLoop(ranked_, 1, repeated_urls, max_reused_in_front, Max(1, front_size_), <<>>, <<>>).overflow
             \o FrontLoop(ranked_, 1, repeated_urls, max_reused_in_front, Max(1, front_size_), <<>>, <<>>).front

_deprioritize_recent_urls(ranked_, repeated_urls, max_reused_in_front, front_size_) ==
    IF ranked_ = <<>> \/ repeated_urls = {} THEN ranked_
    ELSE IF max_reused_in_front < 0 THEN ranked_
    ELSE LET front_target == Max(1, front_size_)
             r == FrontLoop(ranked_, 1, repeated_urls, max_reused_in_front, front_target, <<>>, <<>>)
             missing == front_target - Len(r.front)
         IN  IF missing > 0 /\ r.overflow # <<>>
             THEN (r.front \o Head_(r.overflow, missing)) \o Tail_(r.overflow, missing + 1)
             ELSE r.front \o r.overflow

\* _cap_source_items if it tested source_count > cap
RECURSIVE _cap_source_items_one_more(_, _, _)
_cap_source_items_one_more(items, source_name, cap) ==
    IF cap < 0 \/ items = <<>> THEN items
    ELSE IF /\ items[Len(items)].source = source_name
            /\ Cardinality({i \in 1..(Len(items) - 1) : items[i].source = source_name}) > cap
    THEN _cap_source_items_one_more(SubSeq(items, 1, Len(items) - 1), source_name, cap)
    ELSE Append(_cap_source_items_one_more(SubSeq(items, 1, Len(items) - 1), source_name, cap),
                items[Len(items)])

RECURSIVE _cap_source_items(_, _, _)
_cap_source_items(items, source_name, cap) ==
    IF cap < 0 \/ items = <<>> THEN items
    ELSE LET item == items[Len(items)]
             before == SubSeq(items, 1, Len(items) - 1)
             source_count == Cardinality({i \in 1..Len(before) : before[i].source = source_name})
         IN  IF item.source = source_name /\ source_count >= cap
             THEN _cap_source_items(before, source_name, cap)
             ELSE Append(_cap_source_items(before, source_name, cap), item)

-----------------------------------------------------------------------------
(* analysis.py *)

NEGATIVE_HINTS ==
    { <<"f", "r", "a", "u", "d">>,
      <<"l", "a", "w", "s", "u", "i", "t">>,
      <<"p", "r", "o", "b", "e">>,
      <<"i", "n", "v", "e", "s", "t", "i", "g", "a", "t", "i", "o", "n">>,
      <<"l", "a", "y", "o", "f", "f">>,
      <<"b", "a", "n", "k", "r", "u", "p", "t", "c", "y">>,
      <<"r", "e", "c", "a", "l", "l">>,
      <<"d", "o", "w", "n", "g", "r", "a", "d", "e">>,
      <<"h", "a", "c", "k">>,
      <<"e", "x", "p", "l", "o", "i", "t">>,
      <<"s", "a", "n", "c", "t", "i", "o", "n">>,
      <<"p", "e", "n", "a", "l", "t", "y">>,
      <<"d", "e", "c", "l", "i", "n", "e">>,
      <<"d", "r", "o", "p">>,
      <<"b", "e", "a", "r", "i", "s", "h">>,
      <<"U+66B4", "U+8DCC">>,
      <<"U+4E0B", "U+6ED1">>,
      <<"U+88C1", "U+5458">>,
      <<"U+8BC9", "U+8BBC">>,
      <<"U+8C03", "U+67E5">>,
      <<"U+5904", "U+7F5A">>,
      <<"U+4E8F", "U+635F">> }

POSITIVE_HINTS ==
    { <<"b", "r", "e", "a", "k", "t", "h", "r", "o", "u", "g", "h">>,
      <<"l", "a", "u", "n", "c", "h">>,
      <<"a", "d", "o", "p", "t", "i", "o", "n">>,
      <<"p", "a", "r", "t", "n", "e", "r", "s", "h", "i", "p">>,
      <<"g", "r", "o", "w", "t", "h">>,
      <<"u", "p", "g", "r", "a", "d", "e">>,
      <<"a", "p", "p", "r", "o", "v", "a", "l">>,
      <<"g", "u", "i", "d", "a", "n", "c", "e", " ", "r", "a", "i", "s", "e", "d">>,
      <<"r", "e", "c", "o", "r", "d">>,
      <<"e", "x", "p", "a", "n", "s", "i", "o", "n">>,
      <<"u", "n", "l", "o", "c", "k">>,
      <<"i", "n", "c", "r", "e", "a", "s", "e">>,
      <<"f", "i", "r", "s", "t">>,
      <<"n", "e", "w">>,
      <<"U+7A81", "U+7834">>,
      <<"U+521B", "U+65B0">>,
      <<"U+589E", "U+957F">>,
      <<"U+4E0A", "U+8C03">>,
      <<"U+843D", "U+5730">>,
      <<"U+6269", "U+5F20">>,
      <<"U+5408", "U+4F5C">>,
      <<"U+63D0", "U+901F">>,
      <<"U+9996", "U+6B21">>,
      <<"U+65B0", "U+589E">>,
      <<"U+5347", "U+7EA7">> }

INNOVATION_HINTS ==
    { <<"a", "g", "e", "n", "t">>,
      <<"t", "o", "k", "e", "n", "i", "z", "a", "t", "i", "o", "n">>,
      <<"m", "a", "i", "n", "n", "e", "t">>,
      <<"i", "n", "f", "r", "a", "s", "t", "r", "u", "c", "t", "u", "r", "e">>,
      <<"s", "t", "a", "n", "d", "a", "r", "d">>,
      <<"r", "o", "l", "l", "u", "p">>,
      <<"d", "e", "f", "i">>,
      <<"o", "n", "c", "h", "a", "i", "n">>,
      <<"c", "r", "o", "s", "s", "-", "b", "o", "r", "d", "e", "r">>,
      <<"a", "i", "-", "n", "a", "t", "i", "v", "e">>,
      <<"p", "o", "w", "e", "r", " ", "m", "a", "r", "k", "e", "t">>,
      <<"b", "a", "t", "t", "e", "r", "y", " ", "s", "t", "o", "r", "a", "g", "e">>,
      <<"d", "e", "m", "a", "n", "d", " ", "r", "e", "s", "p", "o", "n", "s", "e">>,
      <<"t", "r", "a", "n", "s", "m", "i", "s", "s", "i", "o", "n">>,
      <<"r", "e", "c", "o", "m", "b", "i", "n", "a", "t", "i", "o", "n">>,
      <<"b", "u", "s", "i", "n", "e", "s", "s", " ", "m", "o", "d", "e", "l">>,
      <<"p", "r", "o", "t", "o", "c", "o", "l">>,
      <<"U+521B", "U+65B0">>,
      <<"U+91CD", "U+7EC4">>,
      <<"U+65B0", "U+6A21", "U+5F0F">>,
      <<"U+65B0", "U+8303", "U+5F0F">>,
      <<"U+57FA", "U+7840", "U+8BBE", "U+65BD">>,
      <<"U+4EE3", "U+5E01", "U+5316">>,
      <<"U+94FE", "U+4E0A">>,
      <<"U+7535", "U+529B", "U+4EA4", "U+6613">>,
      <<"U+5E76", "U+7F51">>,
      <<"U+50A8", "U+80FD">> }

\* the keywords of a breakthrough line in _analyze_heuristic
BreakthroughKeys ==
    { <<"m", "o", "d", "e", "l">>,
      <<"a", "g", "e", "n", "t">>,
      <<"c", "h", "i", "p">>,
      <<"b", "r", "e", "a", "k", "t", "h", "r", "o", "u", "g", "h">>,
      <<"a", "i">>,
      <<"l", "l", "m">>,
      <<"w", "e", "b", "3">>,
      <<"b", "l", "o", "c", "k", "c", "h", "a", "i", "n">>,
      <<"e", "t", "h", "e", "r", "e", "u", "m">>,
      <<"s", "o", "l", "a", "n", "a">>,
      <<"b", "i", "t", "c", "o", "i", "n">>,
      <<"l", "a", "y", "e", "r", " ", "2">>,
      <<"p", "o", "w", "e", "r", " ", "m", "a", "r", "k", "e", "t">>,
      <<"e", "l", "e", "c", "t", "r", "i", "c", "i", "t", "y", " ", "m", "a", "r", "k", "e", "t">>,
      <<"g", "r", "i", "d">>,
      <<"b", "a", "t", "t", "e", "r", "y", " ", "s", "t", "o", "r", "a", "g", "e">>,
      <<"d", "e", "m", "a", "n", "d", " ", "r", "e", "s", "p", "o", "n", "s", "e">>,
      <<"t", "r", "a", "n", "s", "m", "i", "s", "s", "i", "o", "n">> }

\* the keywords of an investment line in _analyze_heuristic
InvestmentKeys ==
    { <<"r", "e", "v", "e", "n", "u", "e">>,
      <<"p", "r", "o", "f", "i", "t">>,
      <<"p", "a", "r", "t", "n", "e", "r", "s", "h", "i", "p">>,
      <<"a", "d", "o", "p", "t", "i", "o", "n">>,
      <<"g", "u", "i", "d", "a", "n", "c", "e">>,
      <<"c", "o", "n", "t", "r", "a", "c", "t">>,
      <<"1", "0", "-", "q">>,
      <<"1", "0", "-", "k">>,
      <<"8", "-", "k">>,
      <<"f", "i", "l", "e", "d">>,
      <<"e", "t", "f">>,
      <<"m", "a", "i", "n", "n", "e", "t">>,
      <<"t", "v", "l">>,
      <<"o", "n", "c", "h", "a", "i", "n">>,
      <<"i", "n", "s", "t", "i", "t", "u", "t", "i", "o", "n", "a", "l">>,
      <<"p", "p", "a">>,
      <<"c", "a", "p", "a", "c", "i", "t", "y", " ", "m", "a", "r", "k", "e", "t">>,
      <<"a", "n", "c", "i", "l", "l", "a", "r", "y", " ", "s", "e", "r", "v", "i", "c", "e", "s">>,
      <<"l", "m", "p">>,
      <<"i", "n", "t", "e", "r", "c", "o", "n", "n", "e", "c", "t", "i", "o", "n">> }

\* the keywords of a trend line in _analyze_heuristic
TrendKeys ==
    { <<"p", "o", "l", "i", "c", "y">>,
      <<"i", "n", "f", "r", "a", "s", "t", "r", "u", "c", "t", "u", "r", "e">>,
      <<"r", "e", "g", "u", "l", "a", "t", "i", "o", "n">>,
      <<"s", "u", "p", "p", "l", "y", " ", "c", "h", "a", "i", "n">>,
      <<"s", "t", "a", "n", "d", "a", "r", "d">>,
      <<"w", "a", "l", "l", "e", "t">>,
      <<"d", "e", "f", "i">>,
      <<"s", "t", "a", "b", "l", "e", "c", "o", "i", "n">>,
      <<"t", "o", "k", "e", "n", "i", "z", "a", "t", "i", "o", "n">>,
      <<"o", "n", "c", "h", "a", "i", "n">>,
      <<"r", "o", "l", "l", "u", "p">>,
      <<"t", "r", "a", "n", "s", "m", "i", "s", "s", "i", "o", "n", " ", "q", "u", "e", "u", "e">>,
      <<"c", "o", "n", "g", "e", "s", "t", "i", "o", "n">>,
      <<"c", "u", "r", "t", "a", "i", "l", "m", "e", "n", "t">>,
      <<"g", "r", "i", "d", " ", "b", "o", "t", "t", "l", "e", "n", "e", "c", "k">>,
      <<"e", "r", "c", "o", "t">>,
      <<"p", "j", "m">>,
      <<"c", "a", "i", "s", "o">> }

BreakthroughPrefix == <<"U+79EF", "U+6781", "U+8FDB", "U+5C55", "U+FF1A">>

InvestmentPrefix == <<"U+589E", "U+91CF", "U+673A", "U+4F1A", "U+FF1A">>

TrendPrefix == <<"U+521B", "U+65B0", "U+8D8B", "U+52BF", "U+FF1A">>

OverviewScanned == <<" ", "U+5171", "U+626B", "U+63CF", " ">>

OverviewAdvice == <<" ", "U+6761", "U+4FE1", "U+53F7", "U+FF0C", "U+5EFA", "U+8BAE", "U+4F18", "U+5148", "U+5173", "U+6CE8", "U+9AD8", "U+5206", "U+6761", "U+76EE", "U+5E76", "U+505A", "U+4E8C", "U+6B21", "U+9A8C", "U+8BC1", "U+3002">>

Ellipsis == "U+2026"

\* any(h in text.lower() for h in hints)
ContainsAny(lowered, hints) == \E h \in hints : Contains(lowered, h)

_contains_any(text, hints) == ContainsAny(Lower(text), hints)

_is_negative_signal(text) == _contains_any(text, NEGATIVE_HINTS)

_is_positive_or_innovative(text, require_innovation) ==
    IF require_innovation THEN _contains_any(text, INNOVATION_HINTS)
    ELSE _contains_any(text, POSITIVE_HINTS) \/ _contains_any(text, INNOVATION_HINTS)

\* a list value of the reply: rows when it is a JSON list of strings (a null
\* is the empty string), is_list FALSE for any other JSON value
JsonList(rows) == [is_list |-> TRUE, rows |-> rows]

NotAList == [is_list |-> FALSE, rows |-> <<>>]

RECURSIVE CleanLoop(_, _, _, _, _)
CleanLoop(rows, k, limit, require_innovation, out) ==
    IF k > Len(rows) \/ Len(out) >= limit THEN out
    ELSE LET line == Strip(rows[k])
         IN  IF \/ line = <<>>
                \/ \E i \in 1..Len(out) : Lower(out[i]) = Lower(line)
                \/ _is_negative_signal(line)
                \/ ~_is_positive_or_innovative(line, require_innovation)
             THEN CleanLoop(rows, k + 1, limit, require_innovation, out)
             ELSE CleanLoop(rows, k + 1, limit, require_innovation, Append(out, line))

_clean_lines(value, limit, require_innovation) ==
    IF ~value.is_list THEN <<>> ELSE CleanLoop(value.rows, 1, limit, require_innovation, <<>>)

\* str(n) for n >= 0
RECURSIVE IntToChars(_)
IntToChars(n) ==
    LET digit == <<"0", "1", "2", "3", "4", "5", "6", "7", "8", "9">>[(n % 10) + 1]
    IN  IF n < 10 THEN <<digit>> ELSE Append(IntToChars(n \div 10), digit)

\* f"{score:.1f}" for a score in thousandths, halves to even
FormatScore1(score) ==
    LET a == IF score < 0 THEN 0 - score ELSE score
        q == a \div 100
        r == a % 100
        tenths == IF r < 50 THEN q ELSE IF r > 50 THEN q + 1 ELSE IF q % 2 = 0 THEN q ELSE q + 1
    IN  (IF score < 0 THEN <<"-">> ELSE <<>>)
            \o IntToChars(tenths \div 10) \o <<".">> \o IntToChars(tenths % 10)

\* _cut of _analyze_heuristic
CutTitle(text, limit) ==
    IF Len(text) <= limit THEN text ELSE Append(Head_(text, limit - 1), Ellipsis)

\* [prefix + item.title for item in items[:n] if not _is_negative_signal(item.title)]
PrefixedTitles(prefix, items, n) ==
    LET first == Head_(items, n)
        kept == SelectSeq(first, LAMBDA item : ~_is_negative_signal(item.title))
    IN  [k \in 1..Len(kept) |-> prefix \o kept[k].title]

\* the loop of _analyze_heuristic over the items, from the item k on
RECURSIVE HeuristicLoop(_, _, _, _, _)
HeuristicLoop(items, k, breakthroughs, investments, trends) ==
    IF k > Len(items)
    THEN [breakthroughs |-> breakthroughs, investments |-> investments, trends |-> trends]
    ELSE LET item == items[k]
             text == Lower(item.title \o <<" ">> \o item.summary)
             bullet == (item.title \o <<FullwidthLeftParen>>) \o (item.source \o <<FullwidthRightParen>>)
             b == IF /\ Len(breakthroughs) < 6
                     /\ _is_positive_or_innovative(text, FALSE)
                     /\ \E key \in BreakthroughKeys : Contains(text, key)
                  THEN Append(breakthroughs, bullet) ELSE breakthroughs
             i == IF /\ Len(investments) < 8
                     /\ _is_positive_or_innovative(text, FALSE)
                     /\ \E key \in InvestmentKeys : Contains(text, key)
                  THEN Append(investments, bullet) ELSE investments
             t == IF /\ Len(trends) < 8
                     /\ _is_positive_or_innovative(text, TRUE)
                     /\ \E key \in TrendKeys : Contains(text, key)
                  THEN Append(trends, bullet) ELSE trends
         IN  IF _is_negative_signal(text)
             THEN HeuristicLoop(items, k + 1, breakthroughs, investments, trends)
             ELSE IF Len(b) >= 6 /\ Len(i) >= 6 /\ Len(t) >= 6
             THEN [breakthroughs |-> b, investments |-> i, trends |-> t]
             ELSE HeuristicLoop(items, k + 1, b, i, t)

\* the watchlist loop of _analyze_heuristic
RECURSIVE WatchLoop(_, _, _)
WatchLoop(items, k, watchlist) ==
    IF k > Len(items) \/ Len(watchlist) >= 10 THEN watchlist
    ELSE LET item == items[k]
             blob == Lower(item.title \o <<" ">> \o item.summary)
             line == CutTitle(item.title, 120) \o <<" ", "|", " ">> \o item.source
                        \o <<" ", "|", " ", "s", "c", "o", "r", "e", "=">> \o FormatScore1(item.score)
         IN  IF _is_negative_signal(blob) \/ ~_is_positive_or_innovative(blob, TRUE)
             THEN WatchLoop(items, k + 1, watchlist)
             ELSE WatchLoop(items, k + 1, Append(watchlist, line))

\* Analyzer._analyze_heuristic; "%Y-%m-%d" is the date of the wall clock
_analyze_heuristic(items) ==
    LET r == HeuristicLoop(items, 1, <<>>, <<>>, <<>>)
    IN  [overview |-> (<<"%Y-%m-%d">> \o OverviewScanned) \o (IntToChars(Len(items)) \o OverviewAdvice),
         breakthroughs |-> IF r.breakthroughs = <<>> THEN PrefixedTitles(BreakthroughPrefix, items, 3)
                           ELSE r.breakthroughs,
         investment_signals |-> IF r.investments = <<>> THEN PrefixedTitles(InvestmentPrefix, items, 4)
                                ELSE r.investments,
         overlooked_trends |-> IF r.trends = <<>> THEN PrefixedTitles(TrendPrefix, items, 4)
                               ELSE r.trends,
         watchlist |-> WatchLoop(items, 1, <<>>)]

\* the client of Analyzer.__init__
AnalyzerClient(settings_) ==
    \/ settings_.analysis_provider = "openai" /\ settings_.openai_api_key # ""
    \/ settings_.analysis_provider = "deepseek" /\ settings_.deepseek_api_key # ""

\* Analyzer.model after __init__
AnalyzerModel(settings_) ==
    IF settings_.analysis_provider = "deepseek" /\ settings_.deepseek_api_key # ""
    THEN settings_.deepseek_model ELSE settings_.openai_model

\* Analyzer._model_candidates
AnalyzerModelCandidates(settings_) ==
    IF settings_.analysis_provider = "deepseek"
    THEN IF settings_.deepseek_strict_model
         THEN (IF AnalyzerModel(settings_) # "" THEN <<AnalyzerModel(settings_)>>
               ELSE <<"deepseek-reasoner">>)
         ELSE UniqueNonEmpty(<<AnalyzerModel(settings_), "deepseek-reasoner", "deepseek-chat">>, 1, <<>>)
    ELSE <<AnalyzerModel(settings_)>>

\* "\n".join(str(x).strip() for x in parts if str(x).strip())
RECURSIVE JoinLines(_)
JoinLines(parts) ==
    IF parts = <<>> THEN <<>>
    ELSE IF Len(parts) = 1 THEN parts[1]
    ELSE (parts[1] \o <<"\n">>) \o JoinLines(Tail(parts))

StrippedNonEmpty(parts) ==
    SelectSeq([k \in 1..Len(parts) |-> Strip(parts[k])], LAMBDA x : x # <<>>)

\* Analyzer._analyze_with_openai with the reply of the endpoint: raised is
\* TRUE when the call ends in an exception
_analyze_with_openai(settings_, items, reply) ==
    LET p == reply.parsed
        breakthroughs == _clean_lines(p.breakthroughs, 10, FALSE)
        investment_signals == _clean_lines(p.investment_signals, 10, FALSE)
        overlooked_trends == _clean_lines(p.overlooked_trends, 10, TRUE)
        watchlist == _clean_lines(p.watchlist, 12, TRUE)
        investments == IF investment_signals = <<>> THEN PrefixedTitles(InvestmentPrefix, items, 4)
                       ELSE investment_signals
    IN  IF \/ TryCandidates(AnalyzerModelCandidates(settings_), 1, reply) = "raise"
           \/ reply.content \in {"not_json", "not_object"}
        THEN [raised |-> TRUE, value |-> <<>>]
        ELSE [raised |-> FALSE,
              value |->
                [overview |-> IF p.overview.is_list THEN JoinLines(StrippedNonEmpty(p.overview.rows))
                              ELSE p.overview.text,
                 breakthroughs |-> Head_(IF breakthroughs = <<>>
                                         THEN PrefixedTitles(BreakthroughPrefix, items, 3)
                                         ELSE breakthroughs, 8),
                 investment_signals |-> Head_(investments, 8),
                 overlooked_trends |-> Head_(IF overlooked_trends = <<>> THEN Head_(investments, 6)
                                             ELSE overlooked_trends, 8),
                 watchlist |-> Head_(watchlist, 10)]]

\* analyze without the try/except around _analyze_with_openai
analyze_unguarded(settings_, items, reply) ==
    IF settings_.analysis_provider \in {"openai", "deepseek"} /\ AnalyzerClient(settings_)
    THEN _analyze_with_openai(settings_, items, reply)
    ELSE [raised |-> FALSE, value |-> _analyze_heuristic(items)]

\* Analyzer.analyze with the reply of the endpoint: raised is TRUE when an
\* exception leaves analyze
analyze(settings_, items, reply) ==
    LET external == _analyze_with_openai(settings_, items, reply)
    IN  IF settings_.analysis_provider \in {"openai", "deepseek"} /\ AnalyzerClient(settings_)
        THEN IF external.raised THEN [raised |-> FALSE, value |-> _analyze_heuristic(items)]
             ELSE external
        ELSE [raised |-> FALSE, value |-> _analyze_heuristic(items)]

-----------------------------------------------------------------------------
(* innovation_curator.py *)

\* the client and the model of InnovationCurator.__init__
CuratorClient(settings_) ==
    \/ settings_.analysis_provider = "deepseek" /\ settings_.deepseek_api_key # ""
    \/ settings_.analysis_provider = "openai" /\ settings_.openai_api_key # ""

CuratorModel(settings_) ==
    IF settings_.analysis_provider = "deepseek" /\ settings_.deepseek_api_key # ""
    THEN settings_.deepseek_model
    ELSE IF settings_.analysis_provider = "openai" /\ settings_.openai_api_key # ""
    THEN settings_.openai_model
    ELSE ""

\* InnovationCurator._model_candidates
CuratorModelCandidates(settings_) ==
    IF settings_.analysis_provider = "deepseek"
    THEN UniqueNonEmpty(<<CuratorModel(settings_), "deepseek-chat", "deepseek-reasoner">>, 1, <<>>)
    ELSE IF CuratorModel(settings_) # "" THEN <<CuratorModel(settings_)>> ELSE <<>>

\* one element of "priority_trends"
TrendRow(line, innovation_score) == [is_dict |-> TRUE, line |-> line, innovation_score |-> innovation_score]

NotATrendRow == [is_dict |-> FALSE, line |-> <<>>, innovation_score |-> Missing]

\* the loop of _rank_with_llm over the rows
RECURSIVE SelectTrends(_, _, _)
SelectTrends(rows, k, selected) ==
    IF k > Len(rows) \/ Len(selected) >= 4 THEN selected
    ELSE IF /\ rows[k].is_dict
            /\ Strip(rows[k].line) # <<>>
            /\ GetFloat(rows[k].innovation_score, 0, 0) >= 7500
         THEN SelectTrends(rows, k + 1, Append(selected, Strip(rows[k].line)))
         ELSE SelectTrends(rows, k + 1, selected)

\* InnovationCurator._rank_with_llm with the reply of the endpoint; _parse_payload
\* turns a content that is no JSON object into {}
_rank_with_llm(settings_, reply) ==
    IF TryCandidates(CuratorModelCandidates(settings_), 1, reply) = "raise"
    THEN [raised |-> TRUE, lines |-> <<>>]
    ELSE IF reply.content # "object" \/ ~reply.priority_trends.is_list
    THEN [raised |-> FALSE, lines |-> <<>>]
    ELSE [raised |-> FALSE, lines |-> SelectTrends(reply.priority_trends.rows, 1, <<>>)]

\* the loop of _apply_prioritized_trends
RECURSIVE MergeLines(_, _, _, _)
MergeLines(rows, k, limit, merged) ==
    IF k > Len(rows) \/ Len(merged) >= limit THEN merged
    ELSE LET line == Strip(rows[k])
         IN  IF line = <<>> \/ \E i \in 1..Len(merged) : Lower(merged[i]) = Lower(line)
             THEN MergeLines(rows, k + 1, limit, merged)
             ELSE MergeLines(rows, k + 1, limit, Append(merged, line))

_apply_prioritized_trends(existing, prioritized, limit) ==
    MergeLines(prioritized \o existing, 1, limit, <<>>)

\* InnovationCurator.curate with the reply of the endpoint
curate(settings_, analysis_, items, reply) ==
    LET ranked_ == _rank_with_llm(settings_, reply)
    IN  IF items = <<>> \/ ~CuratorClient(settings_) \/ CuratorModelCandidates(settings_) = <<>>
        THEN analysis_
        ELSE IF ranked_.raised \/ ranked_.lines = <<>> THEN analysis_
        ELSE [analysis_ EXCEPT !.overlooked_trends = _apply_prioritized_trends(@, ranked_.lines, 8)]

-----------------------------------------------------------------------------
(* translation.py *)

\* The text of a report is not written out: a markdown is the record of the
\* values build_markdown renders, and a translation result says which text of
\* that markdown it is.
Untranslated(markdown) == [kind |-> "source", markdown |-> markdown]

\* "\n".join(source.splitlines()) with no line replaced
UntranslatedLines(markdown) == [kind |-> "source_lines", markdown |-> markdown]

Translated(markdown, language) == [kind |-> "translated", language |-> language, markdown |-> markdown]

\* the lines of the source replaced by their translations
TranslatedLines(markdown, language) ==
    [kind |-> "translated_lines", language |-> language, markdown |-> markdown]

\* "Translation unavailable: missing API configuration."
TranslationUnavailable == [kind |-> "unavailable"]

NoText == [kind |-> "empty"]

TranslatorClient(settings_) == CuratorClient(settings_)

TranslatorModel(settings_) == CuratorModel(settings_)

\* ReportTranslator._model_candidates
TranslatorModelCandidates(settings_) ==
    IF settings_.analysis_provider = "deepseek"
    THEN IF settings_.deepseek_strict_model
         THEN (IF TranslatorModel(settings_) # "" THEN <<TranslatorModel(settings_)>>
               ELSE <<"deepseek-reasoner">>)
         ELSE UniqueNonEmpty(<<TranslatorModel(settings_), "deepseek-reasoner", "deepseek-chat">>, 1, <<>>)
    ELSE <<TranslatorModel(settings_)>>

\* _translate_with_retry and _translate_in_chunks: every _translate call of
\* the run gets the same kind of answer, so they end alike; a call that raises
\* and a text shorter than min_len both give ""
_translate_with_retry(settings_, markdown, language, reply) ==
    IF TryCandidates(TranslatorModelCandidates(settings_), 1, reply) = "raise" THEN NoText
    ELSE IF reply.text # "translated" THEN NoText
    ELSE Translated(markdown, language)

\* _translate_by_lines_fallback: a batch whose _translate_lines call raises or
\* answers with another number of lines leaves its lines as they are
_translate_by_lines_fallback(settings_, markdown, language, reply) ==
    IF TryCandidates(TranslatorModelCandidates(settings_), 1, reply) = "raise" THEN UntranslatedLines(markdown)
    ELSE IF reply.lines # "translated" THEN UntranslatedLines(markdown)
    ELSE TranslatedLines(markdown, language)

\* _chinese_ratio(text) >= 0.10 of a Simplified Chinese result; the headings
\* build_markdown writes are Chinese, so the ratio of the source is above 0
ChineseEnough(text) == text.kind \in {"translated", "translated_lines"} /\ text.language = "zh"

\* ReportTranslator.translate_markdown with the answers of the endpoint
translate_markdown(settings_, markdown, reply) ==
    LET zh_1 == _translate_with_retry(settings_, markdown, "zh", reply)
        en_1 == _translate_with_retry(settings_, markdown, "en", reply)
        line_zh == _translate_by_lines_fallback(settings_, markdown, "zh", reply)
        zh_2 == IF zh_1 = NoText \/ ~ChineseEnough(zh_1) THEN line_zh ELSE zh_1
        en_2 == IF en_1 = NoText
                THEN _translate_by_lines_fallback(settings_, markdown, "en", reply)
                ELSE en_1
    IN  IF ~settings_.translation_enabled
        THEN [zh_markdown |-> Untranslated(markdown), en_markdown |-> Untranslated(markdown)]
        ELSE IF ~TranslatorClient(settings_) \/ TranslatorModel(settings_) = ""
        THEN [zh_markdown |-> Untranslated(markdown), en_markdown |-> TranslationUnavailable]
        ELSE [zh_markdown |-> zh_2, en_markdown |-> en_2]

-----------------------------------------------------------------------------
(* pipeline.py: _render_and_store *)

\* fetch_article_context(url): the text the reader serves, "" when the URL has
\* no scheme or the request fails
fetch_article_context(url, reader) ==
    IF UrlParse(url).scheme = <<>> THEN <<>>
    ELSE IF reader.kind = "request_error" THEN <<>>
    ELSE Head_(Strip(reader.text), 2500)

\* the item of the shortlist after the context of its article is added
Enriched(settings_, item, reader) ==
    LET context == fetch_article_context(item.url, reader)
    IN  IF /\ settings_.analysis_provider \in {"openai", "deepseek"}
           /\ settings_.jina_reader_enabled
           /\ StartsWith(item.url, <<"h", "t", "t", "p">>)
           /\ context # <<>>
        THEN [item EXCEPT !.summary = Head_(Strip((@ \o <<"\n">>) \o context), 1600)]
        ELSE item

\* the ranked list after _shortlist_for_llm, which changes the items in place
RankedAfterShortlist(settings_, ranked_items, reader) ==
    [k \in 1..Len(ranked_items) |->
        IF k <= settings_.llm_input_items THEN Enriched(settings_, ranked_items[k], reader)
        ELSE ranked_items[k]]

_shortlist_for_llm(settings_, ranked_items, reader) ==
    Head_(RankedAfterShortlist(settings_, ranked_items, reader), settings_.llm_input_items)

\* _line_is_repeated with the exact test only
_line_is_repeated_exact(sig, history) == sig # <<>> /\ sig \in history

_line_is_repeated(sig, history) ==
    /\ sig # <<>>
    /\ \/ sig \in history
       \/ \E old \in history :
              /\ old # <<>>
              /\ \/ Len(sig) >= 12 /\ Contains(old, sig)
                 \/ Len(old) >= 12 /\ Contains(sig, old)
                 \/ RatioAtLeast(sig, old, 82)

\* _filter_repeated_lines without the fallback to the first lines
_filter_repeated_lines_no_fallback(lines, history, keep_fallback) ==
    SelectSeq([k \in 1..Len(lines) |-> Strip(lines[k])],
              LAMBDA line : line # <<>> /\ ~_line_is_repeated(_normalize_text_signature(line), history))

_filter_repeated_lines(lines, history, keep_fallback) ==
    LET stripped == [k \in 1..Len(lines) |-> Strip(lines[k])]
        out == SelectSeq(stripped,
                   LAMBDA line : line # <<>> /\ ~_line_is_repeated(_normalize_text_signature(line), history))
    IN  IF out # <<>> THEN out ELSE Head_(lines, keep_fallback)

_suppress_cross_report_repeats(analysis_, recent_lines) ==
    IF recent_lines = {} THEN analysis_
    ELSE [analysis_ EXCEPT
             !.breakthroughs = _filter_repeated_lines(@, recent_lines, 2),
             !.investment_signals = _filter_repeated_lines(@, recent_lines, 2),
             !.overlooked_trends = _filter_repeated_lines(@, recent_lines, 2),
             !.watchlist = _filter_repeated_lines(@, recent_lines, 2)]

\* build_markdown: the values the text of the report is rendered from
build_markdown(report_date, analysis_, top_items_, all_items_for_refs, ingest_stats) ==
    [report_date |-> report_date, analysis |-> analysis_, top_items |-> top_items_,
     all_items_for_refs |-> all_items_for_refs]

\* the row build_report and build_json_payload make for the store
build_report(date_key_, analysis_, top_items_, analysis_input_items, ingest_stats, markdown, translations_) ==
    [report_date |-> date_key_,
     total_items |-> ingest_stats.unique_items,
     markdown |-> markdown,
     analysis |-> analysis_,
     ingest_stats |-> ingest_stats,
     translations |-> translations_,
     top_items |-> top_items_,
     analysis_input_items |-> analysis_input_items]

\* ReportStorage.upsert_report: one row per report_date
upsert_report(store_, report) == (report.report_date :> report) @@ store_

-----------------------------------------------------------------------------
(* reporting.py: the attribution of sources to the lines of a report *)

TEXT_ALIAS_MAP ==
    { [key |-> <<"U+4EE3", "U+5E01", "U+5316">>,
       aliases |-> {<<"t", "o", "k", "e", "n", "i", "z", "a", "t", "i", "o", "n">>, <<"t", "o", "k", "e", "n", "i", "z", "e", "d">>}],
      [key |-> <<"U+82F1", "U+56FD">>,
       aliases |-> {<<"u", "n", "i", "t", "e", "d", " ", "k", "i", "n", "g", "d", "o", "m">>, <<"u", "k">>, <<"b", "r", "i", "t", "a", "i", "n">>}],
      [key |-> <<"U+52A0", "U+5BC6">>,
       aliases |-> {<<"c", "r", "y", "p", "t", "o">>, <<"c", "r", "y", "p", "t", "o", "c", "u", "r", "r", "e", "n", "c", "y">>, <<"d", "i", "g", "i", "t", "a", "l", " ", "a", "s", "s", "e", "t">>}],
      [key |-> <<"U+94FE", "U+4E0A">>,
       aliases |-> {<<"o", "n", "c", "h", "a", "i", "n">>, <<"o", "n", "-", "c", "h", "a", "i", "n">>}],
      [key |-> <<"U+7535", "U+529B", "U+4EA4", "U+6613">>,
       aliases |-> {<<"p", "o", "w", "e", "r", " ", "m", "a", "r", "k", "e", "t">>, <<"e", "l", "e", "c", "t", "r", "i", "c", "i", "t", "y", " ", "m", "a", "r", "k", "e", "t">>, <<"p", "o", "w", "e", "r", " ", "t", "r", "a", "d", "i", "n", "g">>}],
      [key |-> <<"U+9884", "U+6D4B", "U+5E02", "U+573A">>,
       aliases |-> {<<"p", "r", "e", "d", "i", "c", "t", "i", "o", "n", " ", "m", "a", "r", "k", "e", "t">>, <<"p", "o", "l", "y", "m", "a", "r", "k", "e", "t">>, <<"k", "a", "l", "s", "h", "i">>}],
      [key |-> <<"U+5185", "U+5BB9", "U+521B", "U+4F5C", "U+8005">>,
       aliases |-> {<<"c", "r", "e", "a", "t", "o", "r">>, <<"s", "u", "b", "s", "t", "a", "c", "k">>}],
      [key |-> <<"U+76D1", "U+7BA1">>,
       aliases |-> {<<"r", "e", "g", "u", "l", "a", "t", "i", "o", "n">>, <<"s", "e", "c">>, <<"p", "o", "l", "i", "c", "y">>, <<"c", "o", "m", "p", "l", "i", "a", "n", "c", "e">>}] }

\* the characters "-", "*", U+2022 and U+00B7 of the bullet pattern
BulletChars == {"-", "*", "U+2022", "U+00B7"}

RECURSIVE DropBullets(_)
DropBullets(s) == IF s # <<>> /\ Head(s) \in BulletChars THEN DropBullets(Tail(s)) ELSE s

_strip_bullet_prefix(text) == Strip(DropBullets(Strip(text)))

\* the loop of _merge_followups over the lines of all groups
RECURSIVE MergeFollowups(_, _, _)
MergeFollowups(rows, k, merged) ==
    IF k > Len(rows) THEN merged
    ELSE MergeFollowups(rows, k + 1,
             IF \/ _strip_bullet_prefix(rows[k]) = <<>>
                \/ \E i \in 1..Len(merged) : Lower(merged[i]) = Lower(_strip_bullet_prefix(rows[k]))
             THEN merged ELSE Append(merged, _strip_bullet_prefix(rows[k])))

_merge_followups(group1, group2) == MergeFollowups(group1 \o group2, 1, <<>>)

\* blob of _source_entries and of _external_source_entries
SourceBlob(item) ==
    Lower(((item.title \o <<" ">>) \o (item.summary \o <<" ">>)) \o ((item.source \o <<" ">>) \o item.category))

\* the entries (idx, item, blob) of the items that have a URL, numbered from 1
SourceEntriesOf(with_url) ==
    [k \in 1..Len(with_url) |-> [idx |-> k, item |-> with_url[k], blob |-> SourceBlob(with_url[k])]]

_source_entries(top_items_) == SourceEntriesOf(SelectSeq(top_items_, LAMBDA item : item.url # <<>>))

CategoryHints ==
    << [hint |-> <<"e", "a", "r", "n", "i", "n", "g", "s">>,
        keys |-> { <<"U+8D22", "U+62A5">>,
                  <<"8", "-", "k">>,
                  <<"1", "0", "-", "k">>,
                  <<"1", "0", "-", "q">>,
                  <<"U+4E1A", "U+7EE9">>,
                  <<"g", "u", "i", "d", "a", "n", "c", "e">>,
                  <<"e", "a", "r", "n", "i", "n", "g", "s">> }],
       [hint |-> <<"p", "o", "w", "e", "r", "_", "t", "r", "a", "d", "i", "n", "g">>,
        keys |-> { <<"U+7535", "U+529B">>,
                  <<"U+7535", "U+7F51">>,
                  <<"p", "p", "a">>,
                  <<"e", "r", "c", "o", "t">>,
                  <<"p", "j", "m">>,
                  <<"c", "a", "i", "s", "o">>,
                  <<"U+5BB9", "U+91CF">>,
                  <<"U+50A8", "U+80FD">> }],
       [hint |-> <<"w", "e", "b", "3">>,
        keys |-> { <<"w", "e", "b", "3">>,
                  <<"U+52A0", "U+5BC6">>,
                  <<"U+6BD4", "U+7279", "U+5E01">>,
                  <<"U+4EE5", "U+592A", "U+574A">>,
                  <<"s", "o", "l", "a", "n", "a">>,
                  <<"U+94FE", "U+4E0A">>,
                  <<"t", "o", "k", "e", "n">>,
                  <<"d", "e", "f", "i">> }],
       [hint |-> <<"a", "i">>,
        keys |-> { <<"a", "i">>,
                  <<"U+6A21", "U+578B">>,
                  <<"U+7B97", "U+529B">>,
                  <<"U+82AF", "U+7247">>,
                  <<"a", "g", "e", "n", "t">> }] >>

\* the hint of the first list with a key in the lowered text, <<>> for None
FirstHint(lowered, found) == IF found = {} THEN <<>> ELSE CategoryHints[FirstIndex(found)].hint

_category_hint(text) ==
    FirstHint(Lower(text), {k \in 1..4 : ContainsAny(Lower(text), CategoryHints[k].keys)})

IsTokenChar(c) == IsLower(c) \/ c \in Digits

\* re.findall(r"[a-z0-9]{2,}", s) as a set, from the character i on, run being
\* the characters of the run that ends before i
RECURSIVE FindTokens(_, _, _)
FindTokens(s, i, run) ==
    IF i > Len(s) THEN (IF Len(run) >= 2 THEN {run} ELSE {})
    ELSE IF IsTokenChar(s[i]) THEN FindTokens(s, i + 1, Append(run, s[i]))
    ELSE (IF Len(run) >= 2 THEN {run} ELSE {}) \cup FindTokens(s, i + 1, <<>>)

Stopwords ==
    { <<"t", "h", "e">>,
      <<"a", "n", "d">>,
      <<"f", "o", "r">>,
      <<"w", "i", "t", "h">>,
      <<"f", "r", "o", "m">>,
      <<"t", "h", "a", "t">>,
      <<"t", "h", "i", "s">>,
      <<"a", "r", "e">>,
      <<"w", "a", "s">>,
      <<"w", "i", "l", "l">>,
      <<"i", "n", "t", "o">>,
      <<"a", "b", "o", "u", "t">>,
      <<"2", "0", "2", "6">>,
      <<"2", "0", "2", "5">> }

\* the tokens the aliases of the keys found in the line add
AliasTokens(cleaned) ==
    UNION {FindTokens(Lower(alias), 1, <<>>) :
              alias \in UNION {e.aliases : e \in {x \in TEXT_ALIAS_MAP : Contains(cleaned, x.key)}}}

\* the ideographs the texts of the model are written with; they are word
\* characters for \b, as the letters and digits are
HanChars ==
    CjkChars \cup
    { "U+4E0A", "U+4E1A", "U+4EA4", "U+4EE3", "U+4EE5", "U+4F5C", "U+50A8", "U+5145", "U+5185", "U+521B", "U+529B", "U+52A0", "U+5316", "U+56FD", "U+573A", "U+574A", "U+578B", "U+5916", "U+592A", "U+5BB9", "U+5BC6", "U+5E01", "U+5E02", "U+62A5", "U+63A5", "U+6613", "U+6765", "U+6A21", "U+6BD4", "U+6D4B", "U+6E90", "U+7247", "U+7279", "U+7535", "U+76D1", "U+7B97", "U+7BA1", "U+7EE9", "U+7F51", "U+8005", "U+80FD", "U+82AF", "U+82F1", "U+8865", "U+8D22", "U+90E8", "U+91CF", "U+94FE", "U+9884" }

IsWordUnicode(c) == IsWord(c) \/ c \in HanChars

\* re.findall(r"\b[A-Z]{2,6}\b", s) as a set: the runs of 2 to 6 capitals with
\* no word character before and after
TickerAt(s, i, j) ==
    /\ j - i + 1 \in 2..6
    /\ \A k \in i..j : IsUpper(s[k])
    /\ i = 1 \/ ~IsWordUnicode(s[i - 1])
    /\ j = Len(s) \/ ~IsWordUnicode(s[j + 1])

TickerLike(s) ==
    {SubSeq(s, p[1], p[2]) : p \in {q \in (1..Len(s)) \X (1..Len(s)) : TickerAt(s, q[1], q[2])}}

TokenPoints == 1000

TickerPoints == 2000

HintPoints == 1500

\* score of one source in _find_related_source_refs, in thousandths
MatchScore(tokens, tickers, hint, entry) ==
    TokenPoints * Cardinality({t \in tokens : Contains(entry.blob, t)})
        + TickerPoints * Cardinality({tk \in tickers : Contains(entry.blob, Lower(tk))})
        + (IF /\ hint # <<>>
              /\ \/ entry.item.category = hint
                 \/ hint = <<"a", "i">> /\ entry.item.category = <<"i", "t">>
           THEN HintPoints ELSE 0)

\* scored of _find_related_source_refs before the sort
ScoredSources(tokens, tickers, hint, sources) ==
    SelectSeq([k \in 1..Len(sources) |->
                  [score |-> MatchScore(tokens, tickers, hint, sources[k]),
                   idx |-> sources[k].idx, url |-> sources[k].item.url]],
              LAMBDA r : r.score > 0)

\* the place of scored_[k] if scored were left in the order of the sources
RefRank_unsorted(scored_, k) == k

\* place of scored_[k] after scored.sort(key=lambda x: (-x[0], x[1]))
RefRank(scored_, k) ==
    1 + Cardinality({j \in 1..Len(scored_) :
                        \/ scored_[j].score > scored_[k].score
                        \/ scored_[j].score = scored_[k].score /\ scored_[j].idx < scored_[k].idx})

SortRefs(scored_) ==
    [p \in 1..Len(scored_) |-> scored_[CHOOSE k \in 1..Len(scored_) : RefRank(scored_, k) = p]]

\* refs: the (idx, url) of the first limit entries of scored
RefsHead(sorted, limit) ==
    [p \in 1..Min(Len(sorted), limit) |-> [idx |-> sorted[p].idx, url |-> sorted[p].url]]

RelatedRefs(cleaned, sources, limit) ==
    RefsHead(SortRefs(ScoredSources((FindTokens(Lower(cleaned), 1, <<>>) \ Stopwords)
                                        \cup AliasTokens(cleaned),
                                    TickerLike(cleaned), _category_hint(cleaned), sources)),
             limit)

_find_related_source_refs(text, sources, limit) ==
    IF _strip_bullet_prefix(text) = <<>> THEN <<>>
    ELSE RelatedRefs(_strip_bullet_prefix(text), sources, limit)

\* ", ".join(f"[#{idx}]({url})" for idx, url in refs), from the ref k on
RECURSIVE JoinRefs(_, _)
JoinRefs(refs, k) ==
    IF k > Len(refs) THEN <<>>
    ELSE ((IF k = 1 THEN <<>> ELSE <<",", " ">>) \o (<<"[", "#">> \o IntToChars(refs[k].idx)))
            \o ((<<"]", "(">> \o refs[k].url) \o (<<")">> \o JoinRefs(refs, k + 1)))

_format_source_refs(refs) ==
    IF refs = <<>> THEN <<>>
    ELSE (<<"U+FF08", "U+6765", "U+6E90", ":", " ">> \o JoinRefs(refs, 1)) \o <<FullwidthRightParen>>

\* the loop of _external_source_entries, from the item k on
RECURSIVE ExternalLoop(_, _, _, _)
ExternalLoop(items, k, seen, entries) ==
    IF k > Len(items) THEN entries
    ELSE IF Strip(items[k].url) = <<>> \/ Strip(items[k].url) \in seen
    THEN ExternalLoop(items, k + 1, seen, entries)
    ELSE ExternalLoop(items, k + 1, seen \cup {Strip(items[k].url)},
                      Append(entries, [item |-> items[k], blob |-> SourceBlob(items[k])]))

_external_source_entries(items, blocked_urls) == ExternalLoop(items, 1, blocked_urls, <<>>)

\* tokens of _find_external_source_ref
ExternalTokens(cleaned) ==
    FindTokens(Lower(cleaned), 1, <<>>) \cup AliasTokens(cleaned)
        \cup (IF Contains(Lower(cleaned), <<"p", "o", "l", "y", "m", "a", "r", "k", "e", "t">>) \/ Contains(Lower(cleaned), <<"s", "u", "b", "s", "t", "a", "c", "k">>)
              THEN {<<"p", "o", "l", "y", "m", "a", "r", "k", "e", "t">>, <<"s", "u", "b", "s", "t", "a", "c", "k">>} ELSE {})
        \cup (IF Contains(cleaned, <<"U+82F1", "U+56FD">>)
              THEN {<<"u", "n", "i", "t", "e", "d">>, <<"k", "i", "n", "g", "d", "o", "m">>, <<"u", "k">>} ELSE {})

ExternalScore(tokens, entry) == TokenPoints * Cardinality({t \in tokens : Contains(entry.blob, t)})

\* the URL of the first entry with the best score, <<>> for None
BestExternal(tokens, entries, found) ==
    IF found = {} THEN <<>>
    ELSE entries[FirstIndex({k \in found : \A j \in found :
                                 ExternalScore(tokens, entries[j]) <= ExternalScore(tokens, entries[k])})].item.url

_find_external_source_ref(text, entries) ==
    IF _strip_bullet_prefix(text) = <<>> \/ entries = <<>> THEN <<>>
    ELSE BestExternal(ExternalTokens(_strip_bullet_prefix(text)), entries,
                      {k \in 1..Len(entries) :
                          ExternalScore(ExternalTokens(_strip_bullet_prefix(text)), entries[k]) > 0})

ExternalSuffix(external_url) ==
    IF external_url = <<>> THEN <<>>
    ELSE (<<"U+FF08", "U+6765", "U+6E90", "U+8865", "U+5145", ":", " ", "[", "U+5916", "U+90E8", "U+94FE", "U+63A5", "]", "(">> \o external_url) \o <<")", FullwidthRightParen>>

\* suffix of one line in _append_refs
RefSuffix(cleaned, suffix, external_entries, force_source) ==
    IF suffix = <<>> /\ force_source
    THEN ExternalSuffix(_find_external_source_ref(cleaned, external_entries))
    ELSE suffix

\* the line _append_refs writes for a line whose cleaned text is not empty
CitedLine(cleaned, sources, limit, external_entries, force_source) ==
    cleaned \o RefSuffix(cleaned, _format_source_refs(_find_related_source_refs(cleaned, sources, limit)),
                         external_entries, force_source)

CitedLines(kept, sources, limit, external_entries, force_source) ==
    [k \in 1..Len(kept) |-> CitedLine(kept[k], sources, limit, external_entries, force_source)]

\* _append_refs if it kept only the lines it found a source for
_append_refs_cited_only(items, sources, limit, fallback_external_items, force_source) ==
    SelectSeq(CitedLines(SelectSeq([k \in 1..Len(items) |-> _strip_bullet_prefix(items[k])], LAMBDA c : c # <<>>),
                         sources, limit,
                         _external_source_entries(fallback_external_items,
                                                  {sources[k].item.url : k \in 1..Len(sources)} \ {<<>>}),
                         force_source),
              LAMBDA line : FullwidthLeftParen \in Range(line))

_append_refs(items, sources, limit, fallback_external_items, force_source) ==
    CitedLines(SelectSeq([k \in 1..Len(items) |-> _strip_bullet_prefix(items[k])], LAMBDA c : c # <<>>),
               sources, limit,
               _external_source_entries(fallback_external_items,
                                        {sources[k].item.url : k \in 1..Len(sources)} \ {<<>>}),
               force_source)

-----------------------------------------------------------------------------
(* Inputs *)

\* a NewsItem (models.py); id 0 until the item is placed in a list
NewsItem(title, url, source, category, summary, published_at) ==
    [id |-> 0, title |-> title, url |-> url, source |-> source, category |-> category,
     summary |-> summary, score |-> 0, published_at |-> published_at]

\* the items of a list get their position as identity
WithIds(s) == [k \in 1..Len(s) |-> [s[k] EXCEPT !.id = k]]

SeqsUpTo(S, n) == UNION {[1..k -> S] : k \in 0..n}

U_a_http == <<"h", "t", "t", "p", ":", "/", "/", "e", ".", "c", "o", "/", "a", "?", "x">>

U_a_https == <<"h", "t", "t", "p", "s", ":", "/", "/", "E", ".", "c", "o", "/", "A", "/">>

U_b == <<"h", "t", "t", "p", ":", "/", "/", "e", ".", "c", "o", "/", "b">>

U_noscheme == <<"e", ".", "c", "o", "/", "a">>

Src_A == <<"S", "1">>

Cat_ai == <<"a", "i">>

\* titles: "Foo", "foo!" and "foo http://x" normalise to "foo"; "abcdefg" and
\* "abcdefgh" differ and have ratio 14/15
DedupePool ==
    { NewsItem(<<"F", "o", "o">>, <<>>, Src_A, Cat_ai, <<"s">>, 0),
      NewsItem(<<"B", "a", "r">>, U_a_http, Src_A, Cat_ai, <<>>, 1),
      NewsItem(<<"f", "o", "o", "!">>, U_a_https, Src_A, Cat_ai, <<"l", "o", "n", "g">>, 2),
      NewsItem(<<"a", "b", "c", "d", "e", "f", "g">>, U_b, Src_A, Cat_ai, <<"s">>, 0),
      NewsItem(<<"a", "b", "c", "d", "e", "f", "g", "h">>, <<>>, Src_A, Cat_ai, <<"s", "s">>, 1),
      NewsItem(<<>>, U_noscheme, Src_A, Cat_ai, <<>>, 0),
      NewsItem(<<" ", "!">>, U_a_http, Src_A, Cat_ai, <<"s">>, 0),
      NewsItem(<<"f", "o", "o", " ", "h", "t", "t", "p", ":", "/", "/", "x">>, U_b, Src_A, Cat_ai, <<"t">>, 0) }

NoStats == [raw_items |-> 0, unique_items |-> 0, duplicates_removed |-> 0]

\* Settings with the defaults of config.py; given is FALSE for settings=None, a
\* key is "" when unset, the repeat penalty is in thousandths
DefaultSettings ==
    [given |-> TRUE,
     analysis_provider |-> "heuristic",
     openai_api_key |-> "",
     openai_model |-> "gpt-4o-mini",
     deepseek_api_key |-> "",
     deepseek_model |-> "deepseek-reasoner",
     deepseek_strict_model |-> TRUE,
     translation_enabled |-> TRUE,
     llm_scoring_enabled |-> TRUE,
     llm_scoring_max_items |-> 80,
     novelty_lookback_reports |-> 2,
     novelty_repeat_penalty |-> 1200,
     novelty_max_reused_items_in_front |-> 3,
     llm_input_items |-> 25,
     jina_reader_enabled |-> TRUE]

NoSettings == [DefaultSettings EXCEPT !.given = FALSE]

OpenAiSettings == [DefaultSettings EXCEPT !.analysis_provider = "openai", !.openai_api_key = "sk"]

DeepseekSettings == [DefaultSettings EXCEPT !.analysis_provider = "deepseek", !.deepseek_api_key = "sk"]

ScoreSettingsPool ==
    { DefaultSettings,
      NoSettings,
      OpenAiSettings,
      [OpenAiSettings EXCEPT !.openai_api_key = ""],
      [OpenAiSettings EXCEPT !.llm_scoring_enabled = FALSE],
      DeepseekSettings,
      [DeepseekSettings EXCEPT !.deepseek_strict_model = FALSE, !.deepseek_model = "deepseek-v3"] }

Row(id, keep, positive, incremental, innovation, investability, verifiability, total) ==
    [is_dict |-> TRUE, id |-> id, keep |-> keep, positive |-> positive,
     incremental |-> incremental, innovation |-> innovation,
     investability |-> investability, verifiability |-> verifiability, total |-> total]

NotADict == [Row(Missing, TRUE, Missing, Missing, Missing, Missing, Missing, Missing)
                EXCEPT !.is_dict = FALSE]

\* a row that scores 7.0, one that scores 3.8 and one that discards the item
RowHigh(id) == Row(id, TRUE, Num(1500), Num(1000), Num(2500), Num(1500), Num(500), Num(7000))

RowLow(id) == Row(id, TRUE, Num(1000), Num(500), Num(1500), Num(500), Num(500), Num(3000))

RowDiscard(id) == Row(id, FALSE, Num(2000), Num(2000), Num(3000), Num(2000), Num(1000), Num(10000))

\* dimensions out of range, a null and a missing total
RowOdd(id) == Row(id, TRUE, Num(5000), Num(-1000), Bad, Num(1000), Missing, Missing)

\* the external scorer's answer: whether the openai package is there, the
\* models the endpoint answers "Model Not Exist" for, whether the call raises
\* another error, the kind of content and the rows of its "scores" list
Reply(unknown, error, content, rows) ==
    [openai_installed |-> TRUE, unknown_models |-> unknown, error |-> error,
     content |-> content, rows |-> rows]

NoReply == Reply({}, FALSE, "none", <<>>)

ConfiguredModels == {"gpt-4o-mini", "deepseek-reasoner", "deepseek-v3"}

ReplyPool ==
    { NoReply,
      [NoReply EXCEPT !.openai_installed = FALSE],
      Reply({}, TRUE, "scores", <<RowHigh(Num(1))>>),
      Reply(ConfiguredModels \cup {"deepseek-chat"}, FALSE, "scores", <<RowHigh(Num(1))>>),
      Reply({"gpt-4o-mini", "deepseek-v3"}, FALSE, "scores", <<RowHigh(Num(2))>>),
      Reply({}, FALSE, "not_json", <<>>),
      Reply({}, FALSE, "not_object", <<>>),
      Reply({}, FALSE, "no_scores", <<>>),
      Reply({}, FALSE, "scores_not_list", <<>>),
      Reply({}, FALSE, "scores", <<>>),
      Reply({}, FALSE, "scores", <<RowHigh(Num(1))>>),
      Reply({}, FALSE, "scores", <<RowDiscard(Num(2))>>),
      Reply({}, FALSE, "scores", <<RowHigh(Num(1)), RowLow(Bad)>>),
      Reply({}, FALSE, "scores", <<RowLow(Num(1)), RowHigh(Num(9))>>),
      Reply({}, FALSE, "scores", <<RowHigh(Num(0)), RowLow(Num(2))>>),
      Reply({}, FALSE, "scores", <<NotADict, RowOdd(Num(1))>>),
      Reply({}, FALSE, "scores", <<RowHigh(Num(1)), RowLow(Num(1))>>),
      Reply({}, FALSE, "scores", <<RowLow(Num(2)), RowLow(Num(1))>>),
      Reply({}, FALSE, "scores", <<RowLow(Missing)>>) }

T_x == <<"x">>

Cat_general == <<"g", "e", "n", "e", "r", "a", "l">>

Cat_web3 == <<"w", "e", "b", "3">>

\* "AI chip grid" scores 3.8, "Fraud PROBE" -3.6 and "etf" / "chi" / web3 3.75
ScorePool ==
    { NewsItem(<<"A", "I", " ", "c", "h", "i", "p", " ", "g", "r", "i", "d">>, U_b, Src_A, Cat_ai, <<>>, 0),
      NewsItem(<<"F", "r", "a", "u", "d", " ", "P", "R", "O", "B", "E">>, <<>>, Src_A, Cat_general, <<>>, 0),
      NewsItem(<<"e", "t", "f">>, U_a_http, Src_A, Cat_web3, <<"c", "h", "i">>, 0) }

-----------------------------------------------------------------------------
(* Values of the variables a run has not written yet *)

NoAnalysis ==
    [overview |-> <<>>, breakthroughs |-> <<>>, investment_signals |-> <<>>,
     overlooked_trends |-> <<>>, watchlist |-> <<>>]

NotCalled == [kind |-> "not_called"]

NoCalls == [reader |-> NotCalled, analyzer |-> NotCalled, curator |-> NotCalled, translator |-> NotCalled]

NoTranslations == [zh_markdown |-> NoText, en_markdown |-> NoText]

\* the re-ranking parameters _render_and_store passes
NoveltyOf(settings_) ==
    [penalty |-> settings_.novelty_repeat_penalty,
     max_reused_in_front |-> settings_.novelty_max_reused_items_in_front,
     front_size |-> Max(15, settings_.llm_input_items)]

\* no run has started
NoRuns == <<>>

\* no row of a snapshot has been read
NoRow == [kind |-> "none"]

NoItem == [kind |-> "none"]

NoCapRequest == [items |-> <<>>, source_name |-> <<>>, cap |-> 0]

NothingRanked ==
    /\ penalized = <<>>
    /\ ranked = <<>>

NothingRendered ==
    /\ llm_items = <<>>
    /\ calls = NoCalls
    /\ analyzed = NoAnalysis
    /\ analysis = NoAnalysis
    /\ translations = NoTranslations
    /\ top_items = <<>>
    /\ factual_items = <<>>
    /\ cited_line = <<>>
    /\ cited_limit = 0
    /\ source_refs = <<>>

NoHistory ==
    /\ store = <<>>
    /\ date_key = 1
    /\ recent = NoRecent
    /\ novelty = NoveltyOf(settings)

-----------------------------------------------------------------------------
(* dedupe_items as a run: SpecDedupe *)

InitDedupe ==
    /\ pc = "dedupe"
    /\ runs = NoRuns
    /\ payload = {}
    /\ force_attribution = TRUE
    /\ snapshot_row = NoRow
    /\ loaded_item = NoItem
    /\ cap_request = NoCapRequest
    /\ capped = <<>>
    /\ all_items \in {WithIds(s) : s \in SeqsUpTo(DedupePool, MaxItems)}
    /\ unique = <<>>
    /\ stats = NoStats
    /\ settings = DefaultSettings
    /\ llm = NoReply
    /\ scored = <<>>
    /\ NoHistory
    /\ NothingRanked
    /\ NothingRendered

DedupeItems ==
    /\ pc = "dedupe"
    /\ LET r == dedupe_items(all_items)
       IN  /\ unique' = r.unique
           /\ stats' = r.stats
    /\ pc' = "deduped"
    /\ UNCHANGED <<payload, force_attribution, snapshot_row, loaded_item,
                 runs, cap_request, capped, top_items, factual_items, cited_line, cited_limit, source_refs,
                 all_items, settings, llm, scored, store, date_key, recent, novelty,
                   penalized, ranked, llm_items, calls, analyzed, analysis, translations>>

NextDedupe == DedupeItems

SpecDedupe == InitDedupe /\ [][NextDedupe]_vars

-----------------------------------------------------------------------------
(* score_items as a run: SpecScore *)

InitScore ==
    /\ pc = "score"
    /\ runs = NoRuns
    /\ payload = {}
    /\ force_attribution = TRUE
    /\ snapshot_row = NoRow
    /\ loaded_item = NoItem
    /\ cap_request = NoCapRequest
    /\ capped = <<>>
    /\ all_items = <<>>
    /\ unique \in {WithIds(s) : s \in SeqsUpTo(ScorePool, MaxItems)}
    /\ stats = NoStats
    /\ settings \in ScoreSettingsPool
    /\ llm = NoReply
    /\ scored = <<>>
    /\ NoHistory
    /\ NothingRanked
    /\ NothingRendered

\* score_items(unique, settings); the external scorer answers with reply when
\* it is called
ScoreItems ==
    /\ pc = "score"
    /\ \E reply \in ReplyPool :
           /\ LlmCalled(unique, settings, reply) \/ reply.content = "none"
           /\ llm' = reply
           /\ payload' = IF LlmCalled(unique, settings, reply) THEN SentIds(unique, settings) ELSE {}
           /\ scored' = score_items(unique, settings, reply)
    /\ pc' = "scored"
    /\ UNCHANGED <<force_attribution, snapshot_row, loaded_item,
                 runs, cap_request, capped, top_items, factual_items, cited_line, cited_limit, source_refs,
                 all_items, unique, stats, settings, store, date_key, recent, novelty,
                   penalized, ranked, llm_items, calls, analyzed, analysis, translations>>

NextScore == ScoreItems

SpecScore == InitScore /\ [][NextScore]_vars

-----------------------------------------------------------------------------
(* the local score of an item and of the same item with a negative keyword   *)
(* appended to its summary: SpecMonotone                                     *)

AppendToSummary(item, keyword) == [item EXCEPT !.summary = @ \o keyword]

MonotoneTitles == {T_x, <<"f", "r", "a", "u", "d", " ", "p", "r", "o", "b", "e">>, <<"A", "I", " ", "c", "h", "i", "p">>}

\* "chi" + "probe" holds "chip"; "interconnection approva" + "lawsuit" holds
\* "approval" and "interconnection approval"
MonotoneSummaries ==
    { <<>>,
      <<"c", "h", "i">>,
      <<"R", "e", "c", "a", "l", "l">>,
      <<"c", "u", "t", "s">>,
      <<"i", "n", "t", "e", "r", "c", "o", "n", "n", "e", "c", "t", "i", "o", "n", " ", "a", "p", "p", "r", "o", "v", "a">> }

MonotoneCategories == {Cat_general, Cat_web3, <<"j", "o", "b", "s">>}

MonotonePool ==
    {NewsItem(t, U_b, Src_A, c, s, 0) : t \in MonotoneTitles, s \in MonotoneSummaries, c \in MonotoneCategories}

InitMonotone ==
    /\ pc = "score"
    /\ runs = NoRuns
    /\ payload = {}
    /\ force_attribution = TRUE
    /\ snapshot_row = NoRow
    /\ loaded_item = NoItem
    /\ cap_request = NoCapRequest
    /\ capped = <<>>
    /\ all_items = <<>>
    /\ \E item \in MonotonePool, keyword \in NEGATIVE_SIGNAL :
           unique = WithIds(<<item, AppendToSummary(item, keyword)>>)
    /\ stats = NoStats
    /\ settings \in {DefaultSettings, NoSettings}
    /\ llm = NoReply
    /\ scored = <<>>
    /\ NoHistory
    /\ NothingRanked
    /\ NothingRendered

SpecMonotone == InitMonotone /\ [][NextScore]_vars

-----------------------------------------------------------------------------
(* The novelty re-ranking of a scored list against a store: SpecNovelty *)

\* a NewsItem as score_items returns it
Scored(title, url, score) == [NewsItem(title, url, Src_A, Cat_ai, <<>>, 0) EXCEPT !.score = score]

T_Alpha == <<"A", "l", "p", "h", "a">>

T_Beta == <<"B", "e", "t", "a">>

\* a title with no letter, digit or CJK character
T_Marks == <<"?", "?">>

\* Alpha came with U_a_http and Marks with U_b in earlier reports
NoveltyPool ==
    { Scored(T_Alpha, U_a_http, 9000),
      Scored(T_Beta, U_b, 8400),
      Scored(T_Beta, <<>>, 8400),
      Scored(T_Marks, <<>>, 8400),
      Scored(<<"a", "l", "p", "h", "a", "!">>, U_noscheme, 8000),
      Scored(T_Beta, U_a_http, 8000) }

\* the lists score_items can return: sorted by descending score
ScoredLists ==
    {s \in {WithIds(x) : x \in SeqsUpTo(NoveltyPool, MaxItems)} :
        \A k \in 1..(Len(s) - 1) : s[k].score >= s[k + 1].score}

\* the row an earlier run stored for these top items
StoredReport(date, top_items_) ==
    build_report(date, NoAnalysis, top_items_, top_items_,
                 [raw_items |-> Len(top_items_), unique_items |-> Len(top_items_), duplicates_removed |-> 0],
                 build_markdown(date, NoAnalysis, top_items_, top_items_, NoStats), NoTranslations)

\* no report; Alpha two days ago; Marks on U_b yesterday; both, and a report
\* of today that a re-run replaces
NoveltyStorePool ==
    { <<>>,
      (1 :> StoredReport(1, WithIds(<<Scored(T_Alpha, U_a_http, 9000)>>))),
      (2 :> StoredReport(2, WithIds(<<Scored(T_Marks, U_b, 7000)>>))),
      (1 :> StoredReport(1, WithIds(<<Scored(T_Alpha, U_a_http, 9000)>>)))
         @@ (2 :> StoredReport(2, WithIds(<<Scored(T_Marks, U_b, 7000)>>)))
         @@ (3 :> StoredReport(3, WithIds(<<Scored(T_Beta, <<>>, 8400)>>))) }

NoveltyParams ==
    { [penalty |-> 1200, max_reused_in_front |-> 1, front_size |-> 2],
      [penalty |-> 1200, max_reused_in_front |-> 0, front_size |-> 1],
      [penalty |-> 600, max_reused_in_front |-> 0, front_size |-> 3],
      [penalty |-> 0, max_reused_in_front |-> 1, front_size |-> 2],
      [penalty |-> 0, max_reused_in_front |-> 0, front_size |-> 2],
      [penalty |-> -1000, max_reused_in_front |-> -1, front_size |-> 2],
      [penalty |-> 1200, max_reused_in_front |-> 2, front_size |-> 0] }

InitNovelty ==
    /\ pc = "scored"
    /\ runs = NoRuns
    /\ payload = {}
    /\ force_attribution = TRUE
    /\ snapshot_row = NoRow
    /\ loaded_item = NoItem
    /\ cap_request = NoCapRequest
    /\ capped = <<>>
    /\ all_items = <<>>
    /\ unique = <<>>
    /\ stats = NoStats
    /\ settings = DefaultSettings
    /\ llm = NoReply
    /\ scored \in ScoredLists
    /\ store \in NoveltyStorePool
    /\ date_key = 3
    /\ recent = _collect_recent_signatures(store, date_key, settings.novelty_lookback_reports)
    /\ novelty \in NoveltyParams
    /\ NothingRanked
    /\ NothingRendered

ApplyRepeatPenalty ==
    /\ pc = "scored"
    /\ penalized' = _apply_repeat_penalty(scored, recent.urls, recent.titles, novelty.penalty)
    /\ pc' = "penalized"
    /\ UNCHANGED <<payload, force_attribution, snapshot_row, loaded_item,
                 runs, cap_request, capped, top_items, factual_items, cited_line, cited_limit, source_refs,
                 all_items, unique, stats, settings, llm, scored, store, date_key, recent,
                   novelty, ranked, llm_items, calls, analyzed, analysis, translations>>

DeprioritizeRecentUrls ==
    /\ pc = "penalized"
    /\ ranked' = _deprioritize_recent_urls(penalized, recent.urls, novelty.max_reused_in_front,
                                           novelty.front_size)
    /\ pc' = "deprioritized"
    /\ UNCHANGED <<payload, force_attribution, snapshot_row, loaded_item,
                 runs, cap_request, capped, top_items, factual_items, cited_line, cited_limit, source_refs,
                 all_items, unique, stats, settings, llm, scored, store, date_key, recent,
                   novelty, penalized, llm_items, calls, analyzed, analysis, translations>>

NextNovelty == ApplyRepeatPenalty \/ DeprioritizeRecentUrls

SpecNovelty == InitNovelty /\ [][NextNovelty]_vars

-----------------------------------------------------------------------------
(* _render_and_store as a run: Spec *)

Src_Sec == <<"S", "E", "C", " ", "F", "i", "l", "i", "n", "g">>

Item_Chip ==
    NewsItem(<<"A", "I", " ", "c", "h", "i", "p", " ", "g", "r", "i", "d", " ", "l", "a", "u", "n", "c", "h">>,
             U_b, Src_A, Cat_ai, <<>>, 0)

Item_Etf ==
    NewsItem(<<"e", "t", "f", " ", "o", "n", "c", "h", "a", "i", "n">>, U_a_http, Src_Sec, Cat_web3,
             <<"c", "h", "i">>, 0)

PipelinePool == {Item_Chip, Item_Etf}

AllModels == ConfiguredModels \cup {"deepseek-chat"}

DeepseekLoose ==
    [DeepseekSettings EXCEPT !.deepseek_strict_model = FALSE, !.deepseek_model = "deepseek-v3"]

\* the default settings with the look-back switched off
NoLookback == [DefaultSettings EXCEPT !.novelty_lookback_reports = 0]

PipelineSettingsPool == {DefaultSettings, DeepseekLoose, NoLookback}

\* the row a run of the day before stored for the batch <<Item_Chip>> under
\* the default settings
PriorReport ==
    LET top == LocalScored(WithIds(<<Item_Chip>>))
        prior_stats == [raw_items |-> 1, unique_items |-> 1, duplicates_removed |-> 0]
        prior_analysis == [_analyze_heuristic(top) EXCEPT !.overview = Strip(@)]
        markdown == build_markdown(2, prior_analysis, top, top, prior_stats)
    IN  build_report(2, prior_analysis, top, top, prior_stats, markdown,
                     [zh_markdown |-> Untranslated(markdown), en_markdown |-> TranslationUnavailable])

PipelineStorePool == {<<>>, (2 :> PriorReport)}

\* the external scorer: an error, no model that exists, a content that is no
\* JSON, a "scores" list
PipelineScorerReplies ==
    { Reply({}, TRUE, "scores", <<RowHigh(Num(1))>>),
      Reply(AllModels, FALSE, "scores", <<RowHigh(Num(1))>>),
      Reply({}, FALSE, "not_json", <<>>),
      Reply({"deepseek-v3"}, FALSE, "scores", <<RowLow(Num(1)), RowHigh(Num(2))>>) }

\* the reader of article contexts
ReaderPool ==
    { [kind |-> "request_error", text |-> <<>>],
      [kind |-> "text", text |-> <<" ", "n", "e", "w", " ", "p", "r", "o", "t", "o", "c", "o", "l", " ">>] }

JsonText(text) == [is_list |-> FALSE, text |-> text, rows |-> <<>>]

AnalyzerReply(unknown, error, content, overview, breakthroughs, investment_signals, overlooked_trends, watchlist) ==
    [unknown_models |-> unknown, error |-> error, content |-> content,
     parsed |-> [overview |-> overview, breakthroughs |-> breakthroughs,
                 investment_signals |-> investment_signals,
                 overlooked_trends |-> overlooked_trends, watchlist |-> watchlist]]

\* "New agent launch", twice, and "first rollup"
AnalyzerOk ==
    AnalyzerReply({"deepseek-v3"}, FALSE, "object", JsonText(<<" ", "O", "k", " ">>),
                  JsonList(<< <<"N", "e", "w", " ", "a", "g", "e", "n", "t", " ", "l", "a", "u", "n", "c", "h">>,
                              <<"n", "e", "w", " ", "a", "g", "e", "n", "t", " ", "l", "a", "u", "n", "c", "h">> >>),
                  NotAList, JsonList(<<>>),
                  JsonList(<< <<"f", "i", "r", "s", "t", " ", "r", "o", "l", "l", "u", "p">> >>))

AnalyzerReplyPool ==
    { AnalyzerOk,
      [AnalyzerOk EXCEPT !.unknown_models = {}, !.error = TRUE],
      [AnalyzerOk EXCEPT !.unknown_models = AllModels],
      [AnalyzerOk EXCEPT !.content = "not_object"] }

\* "New onchain standard" at 9.0 and a line below 7.5
CuratorOk ==
    [unknown_models |-> {"deepseek-v3"}, error |-> FALSE, content |-> "object",
     priority_trends |->
        JsonList(<< TrendRow(<<"N", "e", "w", " ", "o", "n", "c", "h", "a", "i", "n", " ",
                               "s", "t", "a", "n", "d", "a", "r", "d">>, Num(9000)),
                    TrendRow(<<"l", "o", "w">>, Num(7400)),
                    NotATrendRow >>)]

CuratorReplyPool ==
    { CuratorOk,
      [CuratorOk EXCEPT !.unknown_models = {}, !.error = TRUE],
      [CuratorOk EXCEPT !.unknown_models = AllModels],
      [CuratorOk EXCEPT !.content = "not_json"] }

TranslatorOk == [unknown_models |-> {}, error |-> FALSE, text |-> "translated", lines |-> "translated"]

TranslatorReplyPool ==
    { TranslatorOk,
      [TranslatorOk EXCEPT !.error = TRUE],
      [TranslatorOk EXCEPT !.unknown_models = AllModels],
      [TranslatorOk EXCEPT !.text = "short", !.lines = "not_json"] }

Init ==
    /\ pc = "dedupe"
    /\ runs = NoRuns
    /\ payload = {}
    /\ force_attribution = TRUE
    /\ snapshot_row = NoRow
    /\ loaded_item = NoItem
    /\ cap_request = NoCapRequest
    /\ capped = <<>>
    /\ all_items \in {WithIds(s) : s \in SeqsUpTo(PipelinePool, MaxBatch)}
    /\ unique = <<>>
    /\ stats = NoStats
    /\ settings \in PipelineSettingsPool
    /\ llm = NoReply
    /\ scored = <<>>
    /\ store \in PipelineStorePool
    /\ date_key = 3
    /\ recent = NoRecent
    /\ novelty = NoveltyOf(settings)
    /\ NothingRanked
    /\ NothingRendered

CollectRecentSignatures ==
    /\ pc = "deduped"
    /\ recent' = _collect_recent_signatures(store, date_key, settings.novelty_lookback_reports)
    /\ pc' = "collected"
    /\ UNCHANGED <<payload, force_attribution, snapshot_row, loaded_item,
                 runs, cap_request, capped, top_items, factual_items, cited_line, cited_limit, source_refs,
                 all_items, unique, stats, settings, llm, scored, store, date_key, novelty,
                   penalized, ranked, llm_items, calls, analyzed, analysis, translations>>

\* score_items(deduped_items, settings)
Score ==
    /\ pc = "collected"
    /\ \E reply \in PipelineScorerReplies \cup {NoReply} :
           /\ LlmCalled(unique, settings, reply) <=> reply # NoReply
           /\ llm' = reply
           /\ payload' = IF LlmCalled(unique, settings, reply) THEN SentIds(unique, settings) ELSE {}
           /\ scored' = score_items(unique, settings, reply)
    /\ pc' = "scored"
    /\ UNCHANGED <<force_attribution, snapshot_row, loaded_item,
                 runs, cap_request, capped, top_items, factual_items, cited_line, cited_limit, source_refs,
                 all_items, unique, stats, settings, store, date_key, recent, novelty,
                   penalized, ranked, llm_items, calls, analyzed, analysis, translations>>

CapSourceItems ==
    /\ pc = "deprioritized"
    /\ ranked' = _cap_source_items(ranked, Src_Sec, 5)
    /\ pc' = "capped"
    /\ UNCHANGED <<payload, force_attribution, snapshot_row, loaded_item,
                 runs, cap_request, capped, top_items, factual_items, cited_line, cited_limit, source_refs,
                 all_items, unique, stats, settings, llm, scored, store, date_key, recent,
                   novelty, penalized, llm_items, calls, analyzed, analysis, translations>>

\* whether _shortlist_for_llm asks the reader for some article
ReaderCalled ==
    /\ settings.analysis_provider \in {"openai", "deepseek"}
    /\ settings.jina_reader_enabled
    /\ \E k \in 1..Min(Len(ranked), settings.llm_input_items) :
           /\ StartsWith(ranked[k].url, <<"h", "t", "t", "p">>)
           /\ UrlParse(ranked[k].url).scheme # <<>>

ShortlistForLlm ==
    /\ pc = "capped"
    /\ \E reader \in ReaderPool \cup {NotCalled} :
           /\ ReaderCalled <=> reader # NotCalled
           /\ calls' = [calls EXCEPT !.reader = reader]
           /\ ranked' = IF ReaderCalled THEN RankedAfterShortlist(settings, ranked, reader) ELSE ranked
           /\ llm_items' = Head_(ranked', settings.llm_input_items)
    /\ pc' = "shortlisted"
    /\ UNCHANGED <<payload, force_attribution, snapshot_row, loaded_item,
                 runs, cap_request, capped, top_items, factual_items, cited_line, cited_limit, source_refs,
                 all_items, unique, stats, settings, llm, scored, store, date_key, recent,
                   novelty, penalized, analyzed, analysis, translations>>

AnalyzerCalled == settings.analysis_provider \in {"openai", "deepseek"} /\ AnalyzerClient(settings)

\* analyzer.analyze(date_key, llm_items) and the strip of the overview; an
\* exception that leaves analyze ends the run
Analyze ==
    /\ pc = "shortlisted"
    /\ \E reply \in AnalyzerReplyPool \cup {NotCalled} :
           /\ AnalyzerCalled <=> reply # NotCalled
           /\ calls' = [calls EXCEPT !.analyzer = reply]
           /\ LET r == analyze(settings, llm_items, IF AnalyzerCalled THEN reply ELSE AnalyzerOk)
              IN  IF r.raised
                  THEN /\ pc' = "crashed"
                       /\ UNCHANGED <<analyzed, analysis>>
                  ELSE /\ pc' = "analyzed"
                       /\ analyzed' = [r.value EXCEPT !.overview = Strip(@)]
                       /\ analysis' = [r.value EXCEPT !.overview = Strip(@)]
    /\ UNCHANGED <<payload, force_attribution, snapshot_row, loaded_item,
                 runs, cap_request, capped, top_items, factual_items, cited_line, cited_limit, source_refs,
                 all_items, unique, stats, settings, llm, scored, store, date_key, recent,
                   novelty, penalized, ranked, llm_items, translations>>

CuratorCalled ==
    /\ llm_items # <<>>
    /\ CuratorClient(settings)
    /\ CuratorModelCandidates(settings) # <<>>

Curate ==
    /\ pc = "analyzed"
    /\ \E reply \in CuratorReplyPool \cup {NotCalled} :
           /\ CuratorCalled <=> reply # NotCalled
           /\ calls' = [calls EXCEPT !.curator = reply]
           /\ analysis' = curate(settings, analysis, llm_items, IF CuratorCalled THEN reply ELSE CuratorOk)
    /\ pc' = "curated"
    /\ UNCHANGED <<payload, force_attribution, snapshot_row, loaded_item,
                 runs, cap_request, capped, top_items, factual_items, cited_line, cited_limit, source_refs,
                 all_items, unique, stats, settings, llm, scored, store, date_key, recent,
                   novelty, penalized, ranked, llm_items, analyzed, translations>>

SuppressCrossReportRepeats ==
    /\ pc = "curated"
    /\ analysis' = _suppress_cross_report_repeats(analysis, recent.analysis_lines)
    /\ pc' = "suppressed"
    /\ UNCHANGED <<payload, force_attribution, snapshot_row, loaded_item,
                 runs, cap_request, capped, top_items, factual_items, cited_line, cited_limit, source_refs,
                 all_items, unique, stats, settings, llm, scored, store, date_key, recent,
                   novelty, penalized, ranked, llm_items, calls, analyzed, translations>>

\* top_items and markdown of _render_and_store
TopItems == Head_(ranked, 15)

ReportMarkdown == build_markdown(date_key, analysis, TopItems, ranked, stats)

TranslatorCalled ==
    /\ settings.translation_enabled
    /\ TranslatorClient(settings)
    /\ TranslatorModel(settings) # ""

\* build_markdown and translate_markdown
TranslateReport ==
    /\ pc = "suppressed"
    /\ \E reply \in TranslatorReplyPool \cup {NotCalled} :
           /\ TranslatorCalled <=> reply # NotCalled
           /\ calls' = [calls EXCEPT !.translator = reply]
           /\ translations' = translate_markdown(settings, ReportMarkdown,
                                                 IF TranslatorCalled THEN reply ELSE TranslatorOk)
    /\ pc' = "translated"
    /\ UNCHANGED <<payload, force_attribution, snapshot_row, loaded_item,
                 runs, cap_request, capped, top_items, factual_items, cited_line, cited_limit, source_refs,
                 all_items, unique, stats, settings, llm, scored, store, date_key, recent,
                   novelty, penalized, ranked, llm_items, analyzed, analysis>>

\* build_json_payload, build_report and report_storage.upsert_report
StoreReport ==
    /\ pc = "translated"
    /\ store' = upsert_report(store, build_report(date_key, analysis, TopItems, llm_items, stats,
                                                  ReportMarkdown, translations))
    /\ pc' = "done"
    /\ UNCHANGED <<payload, force_attribution, snapshot_row, loaded_item,
                 runs, cap_request, capped, top_items, factual_items, cited_line, cited_limit, source_refs,
                 all_items, unique, stats, settings, llm, scored, date_key, recent, novelty,
                   penalized, ranked, llm_items, calls, analyzed, analysis, translations>>

Next ==
    \/ DedupeItems
    \/ CollectRecentSignatures
    \/ Score
    \/ ApplyRepeatPenalty
    \/ DeprioritizeRecentUrls
    \/ CapSourceItems
    \/ ShortlistForLlm
    \/ Analyze
    \/ Curate
    \/ SuppressCrossReportRepeats
    \/ TranslateReport
    \/ StoreReport

Spec == Init /\ [][Next]_vars

-----------------------------------------------------------------------------
(* _suppress_cross_report_repeats on the lines of an analysis: SpecSuppress *)

\* Lines as the analyzer, the heuristic and the curator write them: none is
\* blank, and a line made from a title can carry the blanks of the title.
L_Same == <<"A", "I", " ", "a", "g", "e", "n", "t", " ", "l", "a", "u", "n", "c", "h">>

L_Tagged == <<"A", "I", " ", "a", "g", "e", "n", "t", " ", "l", "a", "u", "n", "c", "h", " ", "t", "o", "d", "a", "y", " ", "(", "s", "o", "u", "r", "c", "e", ":", " ", "X", ")">>

L_Near == <<"A", "I", " ", "a", "g", "e", "n", "t", " ", "l", "u", "n", "c", "h">>

L_Fresh == <<" ", "G", "r", "i", "d", " ", "s", "t", "o", "r", "a", "g", "e", " ", "d", "e", "a", "l">>

L_Short == <<"a", "g", "e", "n", "t">>

LinePool == {L_Same, L_Tagged, L_Near, L_Fresh, L_Short}

\* Signatures of the lines of earlier reports; the collector keeps no empty one.
H_Launch == <<"a", "i", "a", "g", "e", "n", "t", "l", "a", "u", "n", "c", "h">>

H_Grid == <<"g", "r", "i", "d">>

H_Plan == <<"b", "i", "g", "a", "i", "a", "g", "e", "n", "t", "l", "a", "u", "n", "c", "h", "p", "l", "a", "n">>

H_Deal == <<"g", "r", "i", "d", "s", "t", "o", "r", "a", "g", "e", "d", "e", "a", "l">>

HistoryPool == { {}, {H_Launch}, {H_Grid}, {H_Plan}, {H_Launch, H_Grid}, {H_Launch, H_Deal} }

\* the four sections of an analysis made of one list of lines: the list, the
\* list backwards, the list without its first line and its last line alone
AnalysisOf(a) ==
    [overview |-> <<"o">>,
     breakthroughs |-> a,
     investment_signals |-> [k \in 1..Len(a) |-> a[Len(a) + 1 - k]],
     overlooked_trends |-> IF a = <<>> THEN <<>> ELSE Tail(a),
     watchlist |-> IF a = <<>> THEN <<>> ELSE <<a[Len(a)]>>]

InitSuppress ==
    /\ pc = "curated"
    /\ runs = NoRuns
    /\ payload = {}
    /\ force_attribution = TRUE
    /\ snapshot_row = NoRow
    /\ loaded_item = NoItem
    /\ cap_request = NoCapRequest
    /\ capped = <<>>
    /\ all_items = <<>>
    /\ unique = <<>>
    /\ stats = NoStats
    /\ settings = DefaultSettings
    /\ llm = NoReply
    /\ scored = <<>>
    /\ store = <<>>
    /\ date_key = 1
    /\ \E history \in HistoryPool : recent = [NoRecent EXCEPT !.analysis_lines = history]
    /\ novelty = NoveltyOf(settings)
    /\ NothingRanked
    /\ llm_items = <<>>
    /\ calls = NoCalls
    /\ \E a \in SeqsUpTo(LinePool, MaxLines) : analyzed = AnalysisOf(a)
    /\ analysis = analyzed
    /\ translations = NoTranslations
    /\ top_items = <<>>
    /\ factual_items = <<>>
    /\ cited_line = <<>>
    /\ cited_limit = 0
    /\ source_refs = <<>>

NextSuppress == SuppressCrossReportRepeats

SpecSuppress == InitSuppress /\ [][NextSuppress]_vars

-----------------------------------------------------------------------------
(* The attribution of sources in build_markdown: SpecRefs *)

U_c == <<"h", "t", "t", "p", ":", "/", "/", "e", ".", "c", "o", "/", "c">>

Cat_earnings == <<"e", "a", "r", "n", "i", "n", "g", "s">>

Cat_macro == <<"m", "a", "c", "r", "o">>

Cat_power == <<"p", "o", "w", "e", "r", "_", "t", "r", "a", "d", "i", "n", "g">>

Cat_it == <<"i", "t">>

RefItem(title, url, category, score) ==
    [NewsItem(title, url, Src_A, category, <<>>, 0) EXCEPT !.score = score]

R_Msft == RefItem(<<"M", "S", "F", "T", " ", "f", "i", "l", "e", "s", " ", "1", "0", "-", "Q">>, U_a_http, Cat_earnings, 5000)

R_Plant == RefItem(<<"C", "h", "i", "p", " ", "p", "l", "a", "n", "t", " ", "d", "e", "a", "l", " ", "f", "i", "l", "e", "d">>, U_b, Cat_macro, 9000)

R_Grid == RefItem(<<"G", "r", "i", "d", " ", "s", "t", "o", "r", "a", "g", "e", " ", "d", "e", "a", "l">>, U_c, Cat_power, 7000)

R_Cloud == RefItem(<<"C", "l", "o", "u", "d", " ", "a", "g", "e", "n", "t">>, <<>>, Cat_it, 8000)

RefItemPool == {R_Msft, R_Plant, R_Grid, R_Cloud}

\* "- MSFT filed its 10-Q": a ticker and the language of a filing
Line_Msft == <<"-", " ", "M", "S", "F", "T", " ", "f", "i", "l", "e", "d", " ", "i", "t", "s", " ", "1", "0", "-", "Q">>

\* "deal": one token, found in two items
Line_Deal == <<"d", "e", "a", "l">>

\* "* - Grid storage": two bullet markers
Line_Grid == <<"*", " ", "-", " ", "G", "r", "i", "d", " ", "s", "t", "o", "r", "a", "g", "e">>

\* "Quiet week": no item has one of its tokens
Line_Quiet == <<"Q", "u", "i", "e", "t", " ", "w", "e", "e", "k">>

\* "cloud agent": found only in an item that has no URL
Line_Cloud == <<"c", "l", "o", "u", "d", " ", "a", "g", "e", "n", "t">>

\* "GRID storage deal"
Line_Upper == <<"G", "R", "I", "D", " ", "s", "t", "o", "r", "a", "g", "e", " ", "d", "e", "a", "l">>

\* "* -": bullet markers and nothing else
Line_Bullets == <<"*", " ", "-">>

RefLinePool == {Line_Msft, Line_Deal, Line_Grid, Line_Quiet, Line_Cloud, Line_Upper, Line_Bullets}

\* lists of distinct items
DistinctSeqs(S, n) == {s \in SeqsUpTo(S, n) : \A i, j \in 1..Len(s) : s[i] = s[j] => i = j}

\* top_items of _render_and_store is ranked[:15]; the lists of the model are
\* shorter than 15, and the model takes the first items but the last of a
\* full list, so that an item outside the cited ones exists
TopItemsOf(ranked_) == Head_(ranked_, IF Len(ranked_) = MaxItems THEN MaxItems - 1 ELSE Len(ranked_))

InitRefs ==
    /\ pc = "refs_input"
    /\ runs = NoRuns
    /\ payload = {}
    \* build_markdown passes force_source=True
    /\ force_attribution = TRUE
    /\ snapshot_row = NoRow
    /\ loaded_item = NoItem
    /\ cap_request = NoCapRequest
    /\ capped = <<>>
    /\ all_items = <<>>
    /\ unique = <<>>
    /\ stats = NoStats
    /\ settings = DefaultSettings
    /\ llm = NoReply
    /\ scored = <<>>
    /\ penalized = <<>>
    /\ NoHistory
    /\ novelty = NoveltyOf(DefaultSettings)
    /\ \E s \in DistinctSeqs(RefItemPool, MaxItems) :
          /\ ranked = WithIds(s)
          /\ top_items = TopItemsOf(WithIds(s))
    /\ llm_items = <<>>
    /\ calls = NoCalls
    /\ analyzed = NoAnalysis
    /\ \E x \in RefLinePool, y \in {<<>>, Line_Msft, Line_Quiet, Line_Bullets} :
          /\ analysis = [NoAnalysis EXCEPT !.breakthroughs = <<x>>,
                                           !.investment_signals = IF y = <<>> THEN <<>> ELSE <<y, x>>]
          /\ cited_line = x
    /\ translations = NoTranslations
    /\ factual_items = <<>>
    /\ cited_limit \in {0, 1, 2, MaxItems}
    /\ source_refs = <<>>

\* build_markdown: factual_items
AppendRefs ==
    /\ pc = "refs_input"
    /\ factual_items' = _append_refs(_merge_followups(analysis.breakthroughs, analysis.investment_signals),
                                     _source_entries(top_items), 2, ranked, force_attribution)
    /\ pc' = "cited"
    /\ UNCHANGED <<payload, force_attribution, snapshot_row, loaded_item,
                 runs, cap_request, capped, all_items, unique, stats, settings, llm, scored, store, date_key, recent, novelty,
                   penalized, ranked, llm_items, calls, analyzed, analysis, translations, top_items,
                   cited_line, cited_limit, source_refs>>

\* one call of _find_related_source_refs
FindRelatedSourceRefs ==
    /\ pc = "cited"
    /\ source_refs' = _find_related_source_refs(cited_line, _source_entries(top_items), cited_limit)
    /\ pc' = "outlined"
    /\ UNCHANGED <<payload, force_attribution, snapshot_row, loaded_item,
                 runs, cap_request, capped, all_items, unique, stats, settings, llm, scored, store, date_key, recent, novelty,
                   penalized, ranked, llm_items, calls, analyzed, analysis, translations, top_items,
                   factual_items, cited_line, cited_limit>>

NextRefs == AppendRefs \/ FindRelatedSourceRefs

SpecRefs == InitRefs /\ [][NextRefs]_vars

-----------------------------------------------------------------------------
(* _append_refs with and without forced attribution: SpecForce *)

\* " http://e.co/c": a URL that a snapshot row gives with a leading blank
U_c_padded == <<" ">> \o U_c

R_Notes == RefItem(<<"W", "h", "a", "t", " ", "a", "b", "o", "u", "t", " ", "t", "h", "a", "t", " ", "g", "r", "i", "d">>, U_c, Cat_macro, 6000)

R_Padded == RefItem(<<"M", "o", "r", "e", " ", "a", "b", "o", "u", "t", " ", "t", "h", "a", "t", " ", "p", "l", "a", "n", "t">>, U_c_padded, Cat_macro, 4000)

ForceItemPool == {R_Msft, R_Plant, R_Notes, R_Padded}

\* "about that": two words that _find_related_source_refs drops as stopwords
\* and _find_external_source_ref keeps
Line_About == <<"a", "b", "o", "u", "t", " ", "t", "h", "a", "t">>

ForceLinePool == {Line_About, Line_Msft, Line_Deal, Line_Quiet}

InitForce ==
    /\ pc = "refs_input"
    /\ runs = NoRuns
    /\ payload = {}
    /\ force_attribution \in BOOLEAN
    /\ snapshot_row = NoRow
    /\ loaded_item = NoItem
    /\ cap_request = NoCapRequest
    /\ capped = <<>>
    /\ all_items = <<>>
    /\ unique = <<>>
    /\ stats = NoStats
    /\ settings = DefaultSettings
    /\ llm = NoReply
    /\ scored = <<>>
    /\ penalized = <<>>
    /\ NoHistory
    /\ novelty = NoveltyOf(DefaultSettings)
    /\ \E s \in DistinctSeqs(ForceItemPool, MaxItems) :
          /\ ranked = WithIds(s)
          /\ top_items = TopItemsOf(WithIds(s))
    /\ llm_items = <<>>
    /\ calls = NoCalls
    /\ analyzed = NoAnalysis
    /\ \E x \in ForceLinePool :
          /\ analysis = [NoAnalysis EXCEPT !.breakthroughs = <<x>>]
          /\ cited_line = x
    /\ translations = NoTranslations
    /\ factual_items = <<>>
    /\ cited_limit = 2
    /\ source_refs = <<>>

SpecForce == InitForce /\ [][NextRefs]_vars

-----------------------------------------------------------------------------
(* Runs of the pipeline that share the report store: SpecRuns *)

\* the commands that run _render_and_store: the start-up run and the cron job
\* of run_daily_scheduler, run-once and parse-only of the command line
RunIds == {"scheduler_startup", "scheduler_cron", "run_once", "parse_only"}

\* the report date of a run: date.today() in the scheduler, the option of the
\* command (or today, or the latest snapshot) in the command line
RunDates(r) == IF r \in {"scheduler_startup", "scheduler_cron"} THEN {3} ELSE {2, 3}

\* a run of a command that has not started
IdleRun == [pc |-> "idle", date_key |-> 0, recent |-> NoRecent]

\* what the feeds give to every run of these days, scored
RunScored == WithIds(<<Scored(T_Alpha, U_a_http, 9000), Scored(T_Beta, U_b, 8400)>>)

\* ranked of _render_and_store for the history a run has read
RunRanked(recent_) ==
    _deprioritize_recent_urls(
        _apply_repeat_penalty(RunScored, recent_.urls, recent_.titles,
                              NoveltyOf(DefaultSettings).penalty),
        recent_.urls, NoveltyOf(DefaultSettings).max_reused_in_front,
        NoveltyOf(DefaultSettings).front_size)

InitRuns ==
    /\ pc = "runs"
    /\ runs = [r \in RunIds |-> IdleRun]
    /\ payload = {}
    /\ force_attribution = TRUE
    /\ snapshot_row = NoRow
    /\ loaded_item = NoItem
    /\ cap_request = NoCapRequest
    /\ capped = <<>>
    /\ all_items = <<>>
    /\ unique = <<>>
    /\ stats = NoStats
    /\ settings = DefaultSettings
    /\ llm = NoReply
    /\ scored = <<>>
    /\ store \in {<<>>, (1 :> StoredReport(1, WithIds(<<Scored(T_Alpha, U_a_http, 9000)>>)))}
    /\ date_key = 3
    /\ recent = NoRecent
    /\ novelty = NoveltyOf(DefaultSettings)
    /\ NothingRanked
    /\ NothingRendered

\* _render_and_store of run r, up to its read of the store; the cron job of the
\* scheduler starts after the start-up run has returned
ReadHistory(r) ==
    /\ runs[r].pc = "idle"
    /\ r = "scheduler_cron" => runs["scheduler_startup"].pc = "done"
    /\ \E d \in RunDates(r) :
          runs' = [runs EXCEPT ![r] =
                      [pc |-> "in_flight", date_key |-> d,
                       recent |-> _collect_recent_signatures(store, d,
                                      DefaultSettings.novelty_lookback_reports)]]
    /\ UNCHANGED <<payload, force_attribution, snapshot_row, loaded_item,
                 pc, all_items, unique, stats, settings, llm, scored, store, date_key, recent,
                   novelty, penalized, ranked, llm_items, calls, analyzed, analysis, translations,
                   top_items, factual_items, cited_line, cited_limit, source_refs,
                   cap_request, capped>>

\* _render_and_store of run r, from the re-ranking to its write of the store
UpsertReport(r) ==
    /\ runs[r].pc = "in_flight"
    /\ store' = upsert_report(store, StoredReport(runs[r].date_key,
                                                  Head_(RunRanked(runs[r].recent), 15)))
    /\ runs' = [runs EXCEPT ![r].pc = "done"]
    /\ UNCHANGED <<payload, force_attribution, snapshot_row, loaded_item,
                 pc, all_items, unique, stats, settings, llm, scored, date_key, recent,
                   novelty, penalized, ranked, llm_items, calls, analyzed, analysis, translations,
                   top_items, factual_items, cited_line, cited_limit, source_refs,
                   cap_request, capped>>

NextRuns == \E r \in RunIds : ReadHistory(r) \/ UpsertReport(r)

SpecRuns == InitRuns /\ [][NextRuns]_vars

-----------------------------------------------------------------------------
(* _cap_source_items on a list of items: SpecCap *)

\* two filings and an item of another source
CapPool ==
    { NewsItem(T_Alpha, U_a_http, Src_Sec, Cat_ai, <<>>, 0),
      NewsItem(T_Beta, U_b, Src_Sec, Cat_ai, <<>>, 0),
      NewsItem(T_Alpha, U_b, Src_A, Cat_ai, <<>>, 0) }

InitCap ==
    /\ pc = "cap_input"
    /\ runs = NoRuns
    /\ payload = {}
    /\ force_attribution = TRUE
    /\ snapshot_row = NoRow
    /\ loaded_item = NoItem
    /\ cap_request \in [items : {WithIds(s) : s \in SeqsUpTo(CapPool, MaxItems)},
                        source_name : {Src_Sec, Src_A},
                        cap : (-1)..MaxItems]
    /\ capped = <<>>
    /\ all_items = <<>>
    /\ unique = <<>>
    /\ stats = NoStats
    /\ settings = DefaultSettings
    /\ llm = NoReply
    /\ scored = <<>>
    /\ NoHistory
    /\ NothingRanked
    /\ NothingRendered

CapItems ==
    /\ pc = "cap_input"
    /\ capped' = _cap_source_items(cap_request.items, cap_request.source_name, cap_request.cap)
    /\ pc' = "cap_done"
    /\ UNCHANGED <<payload, force_attribution, snapshot_row, loaded_item,
                 all_items, unique, stats, settings, llm, scored, store, date_key, recent,
                   novelty, penalized, ranked, llm_items, calls, analyzed, analysis, translations,
                   top_items, factual_items, cited_line, cited_limit, source_refs,
                   runs, cap_request>>

NextCap == CapItems

SpecCap == InitCap /\ [][NextCap]_vars

-----------------------------------------------------------------------------
(* _collect_recent_signatures on a store of daily reports: SpecHistory *)

\* the URL of the top item of the report of a date: "http://e.co/" and the date
UrlOfDate(d) == <<"h", "t", "t", "p", ":", "/", "/", "e", ".", "c", "o", "/">> \o IntToChars(d)

\* the report of each of the dates, one top item each, as daily runs stored them
DailyStore(dates) ==
    [d \in dates |-> StoredReport(d, WithIds(<<Scored(T_Alpha \o IntToChars(d), UrlOfDate(d), 9000)>>))]

\* a report for every day up to a day, or for every second day
HistoryStorePool ==
    {DailyStore(1..n) : n \in 0..MaxReports}
        \cup {DailyStore({d \in 1..MaxReports : d % 2 = 0})}

InitHistory ==
    /\ pc = "deduped"
    /\ runs = NoRuns
    /\ payload = {}
    /\ force_attribution = TRUE
    /\ snapshot_row = NoRow
    /\ loaded_item = NoItem
    /\ cap_request = NoCapRequest
    /\ capped = <<>>
    /\ all_items = <<>>
    /\ unique = <<>>
    /\ stats = NoStats
    /\ \E k \in 0..3 : settings = [DefaultSettings EXCEPT !.novelty_lookback_reports = k]
    /\ llm = NoReply
    /\ scored = <<>>
    /\ store \in HistoryStorePool
    /\ date_key \in 1..(MaxReports + 1)
    /\ recent = NoRecent
    /\ novelty = NoveltyOf(settings)
    /\ NothingRanked
    /\ NothingRendered

NextHistory == CollectRecentSignatures

SpecHistory == InitHistory /\ [][NextHistory]_vars

-----------------------------------------------------------------------------
(* The novelty re-ranking of items whose URLs are written in another way than *)
(* in the store: SpecRepeat                                                   *)

\* Beta comes with https://E.co/A/, Alpha came with http://e.co/a?x in an
\* earlier report: one canonical URL, two texts
RepeatPool ==
    { Scored(T_Beta, U_a_https, 9000),
      Scored(T_Beta, U_a_http, 8700),
      Scored(T_Marks, U_b, 8400),
      Scored(T_Marks, <<>>, 8000) }

RepeatLists ==
    {s \in {WithIds(x) : x \in SeqsUpTo(RepeatPool, MaxItems)} :
        \A k \in 1..(Len(s) - 1) : s[k].score >= s[k + 1].score}

InitRepeat ==
    /\ pc = "scored"
    /\ runs = NoRuns
    /\ payload = {}
    /\ force_attribution = TRUE
    /\ snapshot_row = NoRow
    /\ loaded_item = NoItem
    /\ cap_request = NoCapRequest
    /\ capped = <<>>
    /\ all_items = <<>>
    /\ unique = <<>>
    /\ stats = NoStats
    /\ settings = DefaultSettings
    /\ llm = NoReply
    /\ scored \in RepeatLists
    /\ store \in NoveltyStorePool
    /\ date_key = 3
    /\ recent = _collect_recent_signatures(store, date_key, settings.novelty_lookback_reports)
    /\ novelty \in NoveltyParams
    /\ NothingRanked
    /\ NothingRendered

SpecRepeat == InitRepeat /\ [][NextNovelty]_vars

-----------------------------------------------------------------------------
(* score_items on a batch larger than the cap of the external scorer: SpecBatch *)

Item_Grid == NewsItem(<<"A", "I", " ", "c", "h", "i", "p", " ", "g", "r", "i", "d">>, U_b, Src_A, Cat_ai, <<>>, 0)

Item_Fraud == NewsItem(<<"F", "r", "a", "u", "d", " ", "P", "R", "O", "B", "E">>, <<>>, Src_A, Cat_general, <<>>, 0)

Item_Short == NewsItem(<<"e", "t", "f">>, U_a_http, Src_A, Cat_web3, <<"c", "h", "i">>, 0)

\* n items: the two with the lowest local score first, or at the places 9
\* and 10, the others in turn
BatchOf(n, low) ==
    [k \in 1..n |-> IF k \in low THEN Item_Fraud ELSE IF k % 2 = 0 THEN Item_Short ELSE Item_Grid]

BatchLists ==
    {WithIds(BatchOf(n, low)) : n \in {MaxItems, BigBatch - 1, BigBatch}, low \in {{1, 2}, {9, 10}, {2}}}

\* caps of the external scorer: unset, below the batch, the floor, above it
BatchSettings ==
    {[OpenAiSettings EXCEPT !.llm_scoring_max_items = cap] : cap \in {0, 2, 10, BigBatch - 1, 80}}

InitBatch ==
    /\ pc = "score"
    /\ runs = NoRuns
    /\ payload = {}
    /\ force_attribution = TRUE
    /\ snapshot_row = NoRow
    /\ loaded_item = NoItem
    /\ cap_request = NoCapRequest
    /\ capped = <<>>
    /\ all_items = <<>>
    /\ unique \in BatchLists
    /\ stats = NoStats
    /\ settings \in BatchSettings
    /\ llm = NoReply
    /\ scored = <<>>
    /\ NoHistory
    /\ NothingRanked
    /\ NothingRendered

SpecBatch == InitBatch /\ [][NextScore]_vars

-----------------------------------------------------------------------------
(* The re-ranking and the SEC cap of _render_and_store on a list longer than *)
(* the front window: SpecFront                                                *)

\* the k-th item of a list: its own title and URL, a score that falls with k
\* and starts higher for the items an earlier report held
FrontItem(k, source, reported) ==
    [Scored(T_Alpha \o IntToChars(k), UrlOfDate(k), (IF reported THEN 40000 ELSE 20000) - 10 * k)
        EXCEPT !.source = source]

\* a items of the earlier report, b fresh SEC filings, c fresh items, d items
\* of the earlier report and e fresh items
FrontList(a, b, c, d, e) ==
    [k \in 1..(a + b + c + d + e) |->
        IF k <= a THEN FrontItem(k, Src_A, TRUE)
        ELSE IF k <= a + b THEN FrontItem(k, Src_Sec, FALSE)
        ELSE IF k <= a + b + c THEN FrontItem(k, Src_A, FALSE)
        ELSE IF k <= a + b + c + d THEN FrontItem(k, Src_A, TRUE)
        ELSE FrontItem(k, Src_A, FALSE)]

\* the top items of the report of the day before
ReportedOf(items) == SelectSeq(items, LAMBDA item : item.score > 30000)

FrontSettings ==
    {[DefaultSettings EXCEPT !.llm_input_items = 10, !.novelty_max_reused_items_in_front = m] : m \in {0, 3}}

InitFront ==
    /\ pc = "scored"
    /\ runs = NoRuns
    /\ payload = {}
    /\ force_attribution = TRUE
    /\ snapshot_row = NoRow
    /\ loaded_item = NoItem
    /\ cap_request = NoCapRequest
    /\ capped = <<>>
    /\ all_items = <<>>
    /\ unique = <<>>
    /\ stats = NoStats
    /\ settings \in FrontSettings
    /\ llm = NoReply
    /\ \E a \in {0, 3, 4}, b \in {0, 5, 6}, c \in {0, 6, 7}, d \in {0, 1}, e \in {0, 1, 2} :
          /\ a + b + c + d + e <= LongList
          /\ scored = WithIds(FrontList(a, b, c, d, e))
          /\ store = IF a + d = 0 THEN <<>>
                     ELSE (1 :> StoredReport(1, ReportedOf(WithIds(FrontList(a, b, c, d, e)))))
    /\ date_key = 2
    /\ recent = _collect_recent_signatures(store, date_key, settings.novelty_lookback_reports)
    /\ novelty = NoveltyOf(settings)
    /\ NothingRanked
    /\ NothingRendered

NextFront == ApplyRepeatPenalty \/ DeprioritizeRecentUrls \/ CapSourceItems

SpecFront == InitFront /\ [][NextFront]_vars

-----------------------------------------------------------------------------
(* pipeline.py: the rows of a download snapshot, SpecSnapshot *)

\* the JSON values of a row: an absent key, null, a string, an integer, a
\* boolean and the empty list
JsonMissing == [kind |-> "missing", text |-> <<>>, n |-> 0]

JsonNull == [kind |-> "null", text |-> <<>>, n |-> 0]

JsonStr(text) == [kind |-> "str", text |-> text, n |-> 0]

JsonInt(n) == [kind |-> "int", text |-> <<>>, n |-> n]

JsonBool(b) == [kind |-> "bool", text |-> <<>>, n |-> IF b THEN 1 ELSE 0]

JsonEmptyList == [kind |-> "list", text |-> <<>>, n |-> 0]

\* str(value) of a value that row.get found
PyStr(value) ==
    IF value.kind = "null" THEN <<"N", "o", "n", "e">>
    ELSE IF value.kind = "str" THEN value.text
    ELSE IF value.kind = "int" THEN (IF value.n < 0 THEN <<"-">> \o IntToChars(0 - value.n) ELSE IntToChars(value.n))
    ELSE IF value.kind = "bool" THEN (IF value.n = 1 THEN <<"T", "r", "u", "e">> ELSE <<"F", "a", "l", "s", "e">>)
    ELSE <<"[", "]">>

\* str(row.get(key, default))
GetStr(value, default) == IF value.kind = "missing" THEN default ELSE PyStr(value)

\* bool(value) of "if raw_time:"
Truthy(value) ==
    IF value.kind = "str" THEN value.text # <<>>
    ELSE IF value.kind \in {"int", "bool"} THEN value.n # 0
    ELSE FALSE

AllDigits(s) == s # <<>> /\ \A i \in 1..Len(s) : s[i] \in Digits

DigitOf(c) == CHOOSE d \in 0..9 : IntToChars(d) = <<c>>

\* int(s) for a text of decimal digits
RECURSIVE ParseNat(_)
ParseNat(s) ==
    IF s = <<>> THEN 0 ELSE 10 * ParseNat(SubSeq(s, 1, Len(s) - 1)) + DigitOf(s[Len(s)])

Raised == [ok |-> FALSE, nan |-> FALSE, v |-> 0]

Parsed(v) == [ok |-> TRUE, nan |-> FALSE, v |-> v]

\* the thousandths of the digits after a decimal point, three digits kept
Thousandths(frac) == ParseNat(Head_(frac \o <<"0", "0", "0">>, 3))

\* float(text) for an unsigned decimal without exponent, and for "nan"
FloatOfText(text) ==
    LET s   == Strip(text)
        dot == FindFirst(s, 1, {"."})
    IN  IF Lower(s) = <<"n", "a", "n">> THEN [ok |-> TRUE, nan |-> TRUE, v |-> 0]
        ELSE IF AllDigits(s) THEN Parsed(1000 * ParseNat(s))
        ELSE IF dot <= Len(s) /\ AllDigits(SubSeq(s, 1, dot - 1)) /\ AllDigits(SubSeq(s, dot + 1, Len(s)))
        THEN Parsed(1000 * ParseNat(SubSeq(s, 1, dot - 1)) + Thousandths(SubSeq(s, dot + 1, Len(s))))
        ELSE Raised

\* float(score_val): TypeError for None and a list, ValueError for a text
\* that is no number
PyFloat(value) ==
    IF value.kind \in {"int", "bool"} THEN Parsed(1000 * value.n)
    ELSE IF value.kind = "str" THEN FloatOfText(value.text)
    ELSE Raised

\* text.replace("Z", "+00:00")
RECURSIVE ReplaceZ(_)
ReplaceZ(s) ==
    IF s = <<>> THEN <<>>
    ELSE (IF Head(s) = "Z" THEN <<"+", "0", "0", ":", "0", "0">> ELSE <<Head(s)>>) \o ReplaceZ(Tail(s))

\* YYYY-MM-DD with a month and a day that exist in every year
IsIsoDate(s) ==
    /\ Len(s) = 10
    /\ s[5] = "-" /\ s[8] = "-"
    /\ AllDigits(SubSeq(s, 1, 4)) /\ AllDigits(SubSeq(s, 6, 7)) /\ AllDigits(SubSeq(s, 9, 10))
    /\ ParseNat(SubSeq(s, 1, 4)) >= 1
    /\ ParseNat(SubSeq(s, 6, 7)) \in 1..12
    /\ ParseNat(SubSeq(s, 9, 10)) \in 1..28

\* Thh:mm:ss
IsIsoTime(s) ==
    /\ Len(s) = 9
    /\ s[1] = "T" /\ s[4] = ":" /\ s[7] = ":"
    /\ AllDigits(SubSeq(s, 2, 3)) /\ AllDigits(SubSeq(s, 5, 6)) /\ AllDigits(SubSeq(s, 8, 9))
    /\ ParseNat(SubSeq(s, 2, 3)) < 24 /\ ParseNat(SubSeq(s, 5, 6)) < 60 /\ ParseNat(SubSeq(s, 8, 9)) < 60

\* datetime.fromisoformat(text) for a date, a date with a time, and a date
\* with a time and the offset +00:00; the value is the day as YYYYMMDD
fromisoformat(text) ==
    IF Len(text) >= 10 /\ IsIsoDate(SubSeq(text, 1, 10))
         /\ \/ Len(text) = 10
            \/ IsIsoTime(SubSeq(text, 11, Len(text)))
            \/ /\ Len(text) = 25
               /\ IsIsoTime(SubSeq(text, 11, 19))
               /\ SubSeq(text, 20, 25) = <<"+", "0", "0", ":", "0", "0">>
    THEN Parsed(10000 * ParseNat(SubSeq(text, 1, 4)) + 100 * ParseNat(SubSeq(text, 6, 7))
                    + ParseNat(SubSeq(text, 9, 10)))
    ELSE Raised

\* published_at of _deserialize_item, 0 for None
DeserializeTime(raw_time) ==
    IF ~Truthy(raw_time) THEN 0
    ELSE IF fromisoformat(ReplaceZ(PyStr(raw_time))).ok THEN fromisoformat(ReplaceZ(PyStr(raw_time))).v
    ELSE 0

\* score of _deserialize_item: the float and whether it is NaN
DeserializeScore(score_val) ==
    IF score_val.kind = "missing" THEN Parsed(0)
    ELSE IF PyFloat(score_val).ok THEN PyFloat(score_val)
    ELSE Parsed(0)

\* _deserialize_item(row): the item, and whether its score is NaN
_deserialize_item(row) ==
    [kind |-> "item",
     item |-> [NewsItem(GetStr(row.title, <<>>), GetStr(row.url, <<>>), GetStr(row.source, <<>>),
                        GetStr(row.category, Cat_general), GetStr(row.summary, <<>>),
                        DeserializeTime(row.published_at))
               EXCEPT !.score = DeserializeScore(row.score).v],
     score_is_nan |-> DeserializeScore(row.score).nan]

T_Foo == <<"F", "o", "o">>

T_3_5 == <<"3", ".", "5">>

T_abc == <<"a", "b", "c">>

T_nan == <<"n", "a", "n">>

T_yesterday == <<"y", "e", "s", "t", "e", "r", "d", "a", "y">>

T_day == <<"2", "0", "2", "6", "-", "0", "1", "-", "0", "2">>

T_instant == T_day \o <<"T", "0", "3", ":", "0", "4", ":", "0", "5", "Z">>

T_month13 == <<"2", "0", "2", "6", "-", "1", "3", "-", "0", "2">>

\* the rows (JSON objects) of the items list of a snapshot
SnapshotRows ==
    [title        : {JsonMissing, JsonNull, JsonStr(T_Foo), JsonInt(5)},
     url          : {JsonMissing, JsonNull, JsonStr(U_b)},
     source       : {JsonMissing, JsonStr(Src_A), JsonEmptyList},
     category     : {JsonMissing, JsonStr(Cat_ai)},
     summary      : {JsonMissing, JsonNull, JsonStr(<<>>)},
     score        : {JsonMissing, JsonNull, JsonStr(T_3_5), JsonStr(T_abc), JsonStr(T_nan),
                     JsonInt(2), JsonBool(TRUE), JsonEmptyList},
     published_at : {JsonMissing, JsonNull, JsonStr(<<>>), JsonStr(T_yesterday), JsonStr(T_day),
                     JsonStr(T_instant), JsonStr(T_month13)}]

InitSnapshot ==
    /\ pc = "row"
    /\ runs = NoRuns
    /\ payload = {}
    /\ force_attribution = TRUE
    /\ snapshot_row \in SnapshotRows
    /\ loaded_item = NoItem
    /\ cap_request = NoCapRequest
    /\ capped = <<>>
    /\ all_items = <<>>
    /\ unique = <<>>
    /\ stats = NoStats
    /\ settings = DefaultSettings
    /\ llm = NoReply
    /\ scored = <<>>
    /\ NoHistory
    /\ NothingRanked
    /\ NothingRendered

\* _load_download_snapshot: one row of the list becomes an item
DeserializeItem ==
    /\ pc = "row"
    /\ loaded_item' = _deserialize_item(snapshot_row)
    /\ pc' = "loaded"
    /\ UNCHANGED <<payload, force_attribution, snapshot_row,
                   runs, cap_request, capped, top_items, factual_items, cited_line, cited_limit, source_refs,
                   all_items, unique, stats, settings, llm, scored, store, date_key, recent, novelty,
                   penalized, ranked, llm_items, calls, analyzed, analysis, translations>>

NextSnapshot == DeserializeItem

SpecSnapshot == InitSnapshot /\ [][NextSnapshot]_vars

-----------------------------------------------------------------------------
(* Claims on dedupe_items, checked under SpecDedupe *)

\* C1: dedup idempotence. Running dedupe_items on the unique list that
\* dedupe_items returned gives that same list back (same items, order and
\* field values) and removes no duplicate.
C1_DedupIdempotent ==
    pc = "deduped" =>
        /\ dedupe_items(unique).unique = unique
        /\ dedupe_items(unique).stats.duplicates_removed = 0

\* C2: after dedupe_items no two items of the unique list have the same
\* non-empty canonical URL, whatever their titles are.
C2_NoSharedCanonicalUrl ==
    pc = "deduped" =>
        \A i, j \in 1..Len(unique) :
            (i < j /\ _canonical_url(unique[i].url) # <<>>)
                => _canonical_url(unique[i].url) # _canonical_url(unique[j].url)

-----------------------------------------------------------------------------
(* Claims on score_items, checked under SpecScore and SpecMonotone *)

\* the external call ended in an exception: an error of the call, or no
\* candidate model that exists
LlmRaised ==
    LET provider == settings.analysis_provider
        model    == IF provider = "openai" THEN settings.openai_model ELSE settings.deepseek_model
    IN  TryCandidates(_model_candidates(provider, model, settings.deepseek_strict_model), 1, llm) = "raise"

\* the external scorer was called and it raised, or its payload is not a JSON
\* object, has no "scores" list or has an empty one
LlmFailedOrEmpty ==
    /\ LlmCalled(unique, settings, llm)
    /\ \/ LlmRaised
       \/ llm.content \in {"not_json", "not_object", "no_scores", "scores_not_list"}
       \/ llm.content = "scores" /\ llm.rows = <<>>

\* the items of the list with their heuristic score, in the order of the list
WithLocalScores(items) == [k \in 1..Len(items) |-> [items[k] EXCEPT !.score = _heuristic_score(items[k])]]

\* C3: external-scorer fallback. If the external scorer raises or returns an
\* empty or invalid payload, score_items returns what the local strategy
\* returns: every item with its heuristic score, in the local order.
C3_ExternalFallback ==
    (pc = "scored" /\ LlmFailedOrEmpty) => scored = SortByScoreDesc(WithLocalScores(unique))

C3_Witness ==
    /\ pc = "scored"
    /\ LlmCalled(unique, settings, llm)
    /\ ~LlmRaised
    /\ llm.content = "scores"
    /\ llm.rows = <<>>
    /\ Len(scored) >= 2
    /\ scored[1].id # unique[1].id

\* a row of the reply whose id names no item that was sent
RowUnresolvable(row) ==
    \/ ~RowUsable(row)
    \/ row.id.v > Len(unique)
    \/ row.id.v \notin SentIds(unique, settings)

\* C4: if the reply holds a row whose id cannot be resolved to an item that was
\* sent, score_items falls back to the local computation for the whole batch:
\* every item's score is its heuristic score.
C4_UnresolvableIdFallsBack ==
    ( /\ pc = "scored"
      /\ LlmCalled(unique, settings, llm)
      /\ ~LlmRaised
      /\ llm.content = "scores"
      /\ \E k \in 1..Len(llm.rows) : RowUnresolvable(llm.rows[k]) )
        => \A p \in 1..Len(scored) : scored[p].score = _heuristic_score(scored[p])

\* the position of the item in the list given to score_items
InputPosition(item) == CHOOSE k \in 1..Len(unique) : unique[k].id = item.id

\* C6: score_items returns all the input items, sorted by descending score,
\* items of equal score in their input order, on the local path and on the
\* external path.
C6_SortedStable ==
    pc = "scored" =>
        /\ Len(scored) = Len(unique)
        /\ {scored[p].id : p \in 1..Len(scored)} = {unique[k].id : k \in 1..Len(unique)}
        /\ \A p, q \in 1..Len(scored) :
               p < q => \/ scored[p].score > scored[q].score
                        \/ /\ scored[p].score = scored[q].score
                           /\ InputPosition(scored[p]) < InputPosition(scored[q])

\* the external path with a tie between two items and a third item
C6_Witness ==
    /\ pc = "scored"
    /\ LlmCalled(unique, settings, llm)
    /\ ~LlmRaised
    /\ llm.content = "scores"
    /\ llm.rows # <<>>
    /\ Len(scored) = 3
    /\ scored[1].score = scored[2].score
    /\ scored[2].score > scored[3].score
    /\ scored # unique

\* the position in the scored list of the item at the input position k
ScoredPosition(k) == CHOOSE p \in 1..Len(scored) : scored[p].id = k

\* C7: scoring monotonicity. Appending any negative keyword to the summary of
\* any item gives a strictly lower local score.  (Under SpecMonotone item 2 is
\* item 1 with a negative keyword appended to its summary.)
C7_AppendStrictlyLowers ==
    pc = "scored" => scored[ScoredPosition(2)].score < scored[ScoredPosition(1)].score

-----------------------------------------------------------------------------
(* Claims on the novelty re-ranking, checked under SpecNovelty *)

\* the two items are the same item, the score apart
SameButScore(a, b) == [a EXCEPT !.score = 0] = [b EXCEPT !.score = 0]

\* C8: the novelty re-ranking never drops content. The output of
\* _apply_repeat_penalty followed by _deprioritize_recent_urls is a
\* permutation of the scored input: every input item occurs exactly once in
\* it, and it holds no other item.
C8_NoveltyPermutation ==
    pc = "deprioritized" =>
        /\ Len(ranked) = Len(scored)
        /\ \A k \in 1..Len(scored) :
               Cardinality({p \in 1..Len(ranked) :
                               ranked[p].id = scored[k].id /\ SameButScore(ranked[p], scored[k])}) = 1

\* every item is a historical repeat, and the re-ranking changed the order
C8_Witness ==
    /\ pc = "deprioritized"
    /\ novelty.penalty > 0
    /\ novelty.max_reused_in_front >= 0
    /\ Len(scored) = 3
    /\ \A k \in 1..Len(scored) : scored[k].url \in recent.urls
    /\ ranked[1].id # scored[1].id

\* the URL of the item is in the historical URL set
InHistory(item) == item.url \in recent.urls

FreshCount(items) == Cardinality({k \in 1..Len(items) : ~InHistory(items[k])})

ReusedInFront(items, size) == Cardinality({p \in 1..Min(size, Len(items)) : InHistory(items[p])})

\* C9: front-window cap. For max_reused_in_front = M >= 0 and front_size =
\* F >= 1, when the input of _deprioritize_recent_urls holds at least F - M
\* items whose URL is not in the historical URL set, the first F items of its
\* output hold at most M items whose URL is in that set.
C9_FrontWindowCap ==
    ( /\ pc = "deprioritized"
      /\ novelty.max_reused_in_front >= 0
      /\ novelty.front_size >= 1
      /\ FreshCount(penalized) >= novelty.front_size - novelty.max_reused_in_front )
        => ReusedInFront(ranked, novelty.front_size) <= novelty.max_reused_in_front

\* the cap moved a repeated item out of the front window
C9_Witness ==
    /\ pc = "deprioritized"
    /\ novelty.max_reused_in_front >= 0
    /\ novelty.front_size >= 1
    /\ FreshCount(penalized) >= novelty.front_size - novelty.max_reused_in_front
    /\ ReusedInFront(penalized, novelty.front_size) > novelty.max_reused_in_front
    /\ ReusedInFront(ranked, novelty.front_size) <= novelty.max_reused_in_front

\* the penalty of the claim: the penalty for a URL of the historical URL set
\* and 0.7 times the penalty for a normalized title of the historical title
\* set, the empty normalized title included or not
ClaimedPenalty(item, with_empty_title) ==
    (IF item.url \in recent.urls THEN novelty.penalty ELSE 0)
    + (IF /\ _normalize_text_signature(item.title) \in recent.titles
          /\ (with_empty_title \/ _normalize_text_signature(item.title) # <<>>)
       THEN (7 * novelty.penalty) \div 10 ELSE 0)

\* the position in the penalized list of the item at the position k of the input
PenalizedPosition(k) == CHOOSE p \in 1..Len(penalized) : penalized[p].id = scored[k].id

\* the output of _apply_repeat_penalty is the input with the claimed adjusted
\* scores, in descending order of them, and a fresh item is above a repeated
\* one whose raw score exceeds its own by less than the penalty applied
PenaltySorted(with_empty_title) ==
    /\ Len(penalized) = Len(scored)
    /\ \A k \in 1..Len(scored) :
           /\ \E p \in 1..Len(penalized) : penalized[p].id = scored[k].id
           /\ penalized[PenalizedPosition(k)].score
                  = scored[k].score - ClaimedPenalty(scored[k], with_empty_title)
    /\ \A p, q \in 1..Len(penalized) : p < q => penalized[p].score >= penalized[q].score
    /\ \A a, b \in 1..Len(scored) :
           ( /\ ClaimedPenalty(scored[a], with_empty_title) > 0
             /\ ClaimedPenalty(scored[b], with_empty_title) = 0
             /\ scored[a].score - scored[b].score < ClaimedPenalty(scored[a], with_empty_title) )
               => PenalizedPosition(b) < PenalizedPosition(a)

\* C10 as stated: for penalty > 0 _apply_repeat_penalty returns the items in
\* descending order of the adjusted score, the score minus the penalty for a
\* URL of the historical URL set and minus 0.7 times the penalty for a
\* normalized title of the historical title set; a fresh item is above a
\* repeated item whose raw score exceeds its own by less than its penalty.
C10_PenaltySortedAnyTitle ==
    (pc = "penalized" /\ novelty.penalty > 0) => PenaltySorted(TRUE)

\* C10, amended: the same with the 0.7 times the penalty subtracted only for a
\* non-empty normalized title of the historical title set.
C10_PenaltySorted ==
    (pc = "penalized" /\ novelty.penalty > 0) => PenaltySorted(FALSE)

\* an item with both penalties falls below a fresh item that was below it
C10_Witness ==
    /\ pc = "penalized"
    /\ novelty.penalty > 0
    /\ \E a, b \in 1..Len(scored) :
           /\ a < b
           /\ scored[a].score > scored[b].score
           /\ scored[a].url \in recent.urls
           /\ _normalize_text_signature(scored[a].title) # <<>>
           /\ _normalize_text_signature(scored[a].title) \in recent.titles
           /\ ClaimedPenalty(scored[b], FALSE) = 0
           /\ PenalizedPosition(b) < PenalizedPosition(a)

-----------------------------------------------------------------------------
(* Claims on _render_and_store, checked under Spec *)

\* the call of the analyzer ended in an exception (an error of the call, no
\* candidate model that exists) or its content is no JSON object
AnalyzerFailed ==
    /\ calls.analyzer # NotCalled
    /\ \/ TryCandidates(AnalyzerModelCandidates(settings), 1, calls.analyzer) = "raise"
       \/ calls.analyzer.content # "object"

CuratorFailed ==
    /\ calls.curator # NotCalled
    /\ \/ TryCandidates(CuratorModelCandidates(settings), 1, calls.curator) = "raise"
       \/ calls.curator.content # "object"

TranslatorFailed ==
    /\ calls.translator # NotCalled
    /\ \/ TryCandidates(TranslatorModelCandidates(settings), 1, calls.translator) = "raise"
       \/ calls.translator.text # "translated" /\ calls.translator.lines # "translated"

\* C5: for a non-empty batch, whatever combination of the external scorer, the
\* analyzer, the curator and the translator fails, no exception leaves the run
\* and the report the run stores is built from the fallbacks: a failed scorer
\* leaves the local scores, a failed analyzer the heuristic narrative, a
\* failed curator the analysis as it was, a failed translator the
\* untranslated text.
C5_FailuresReachUpsert ==
    all_items # <<>> =>
        /\ pc # "crashed"
        /\ (pc = "scored" /\ LlmFailedOrEmpty) => scored = SortByScoreDesc(WithLocalScores(unique))
        /\ (pc = "analyzed" /\ AnalyzerFailed)
               => /\ analyzed = [_analyze_heuristic(llm_items) EXCEPT !.overview = Strip(@)]
                  /\ analysis = analyzed
        /\ (pc = "curated" /\ CuratorFailed) => analysis = analyzed
        /\ (pc \in {"translated", "done"} /\ TranslatorFailed)
               => /\ translations.zh_markdown = UntranslatedLines(ReportMarkdown)
                  /\ translations.en_markdown = UntranslatedLines(ReportMarkdown)
        /\ pc = "done" =>
               /\ date_key \in DOMAIN store
               /\ store[date_key].analysis = analysis
               /\ store[date_key].translations = translations
               /\ store[date_key].top_items = TopItems

\* the four calls failed in one run and the report was stored
C5_Witness ==
    /\ pc = "done"
    /\ all_items # <<>>
    /\ LlmCalled(unique, settings, llm) /\ LlmRaised
    /\ AnalyzerFailed
    /\ CuratorFailed
    /\ TranslatorFailed
    /\ date_key \in DOMAIN store

-----------------------------------------------------------------------------
(* Claims on _suppress_cross_report_repeats, checked under SpecSuppress *)

Sections == {"breakthroughs", "investment_signals", "overlooked_trends", "watchlist"}

\* the normalized signature of the line matches a historical signature: it is
\* one, one of the two contains the other and the contained one has 12
\* characters or more, or their similarity ratio is 0.82 or more
MatchesHistory(line) ==
    LET sig == _normalize_text_signature(line)
    IN  \E old \in recent.analysis_lines :
            \/ sig = old
            \/ Len(sig) >= 12 /\ Contains(old, sig)
            \/ Len(old) >= 12 /\ Contains(sig, old)
            \/ RatioAtLeast(sig, old, 82)

\* the non-blank lines that do not match history, in their order, each without
\* the blanks around it
UnmatchedLines(lines) ==
    SelectSeq([k \in 1..Len(lines) |-> Strip(lines[k])],
              LAMBDA line : line # <<>> /\ ~MatchesHistory(line))

\* C11: narrative suppression. With a non-empty historical line set, every
\* section that has a line not matching history comes out as exactly its
\* non-blank lines that do not match history, in their original order, and no
\* line of the output matches a historical signature.
C11_SuppressedExactly ==
    (pc = "suppressed" /\ recent.analysis_lines # {}) =>
        \A c \in Sections :
            (\E k \in 1..Len(analyzed[c]) : ~MatchesHistory(analyzed[c][k])) =>
                /\ analysis[c] = UnmatchedLines(analyzed[c])
                /\ \A k \in 1..Len(analysis[c]) : ~MatchesHistory(analysis[c][k])

\* a section with a line that matches only by containment or by ratio, and a
\* line that stays
C11_Witness ==
    /\ pc = "suppressed"
    /\ recent.analysis_lines # {}
    /\ \E k \in 1..Len(analyzed.breakthroughs) :
           /\ MatchesHistory(analyzed.breakthroughs[k])
           /\ _normalize_text_signature(analyzed.breakthroughs[k]) \notin recent.analysis_lines
    /\ analysis.breakthroughs # <<>>
    /\ Len(analysis.breakthroughs) < Len(analyzed.breakthroughs)

\* C12: suppression never empties a section. A section that had a line before
\* _suppress_cross_report_repeats has one after it, and when every line of the
\* section matches history the result is the first min(2, n) original lines.
C12_NeverEmptied ==
    pc = "suppressed" =>
        \A c \in Sections :
            /\ analyzed[c] # <<>> => analysis[c] # <<>>
            /\ ( /\ analyzed[c] # <<>>
                 /\ \A k \in 1..Len(analyzed[c]) : MatchesHistory(analyzed[c][k]) )
               => analysis[c] = Head_(analyzed[c], Min(2, Len(analyzed[c])))

\* three lines that all match history, two of them left
C12_Witness ==
    /\ pc = "suppressed"
    /\ Len(analyzed.breakthroughs) = 3
    /\ \A k \in 1..3 : MatchesHistory(analyzed.breakthroughs[k])
    /\ analyzed.breakthroughs[1] = L_Fresh
    /\ analysis.breakthroughs = Head_(analyzed.breakthroughs, 2)

-----------------------------------------------------------------------------
(* Claims on the steps of _render_and_store, checked under Spec *)

\* analysis of _render_and_store as curate returned it
CuratedAnalysis ==
    curate(settings, analyzed, llm_items, IF CuratorCalled THEN calls.curator ELSE CuratorOk)

\* C13: graceful degradation to identity. When the historical URL, title and
\* narrative-line sets are all empty, the repeat-penalty step returns the
\* Scorer's output unchanged (same order, same scores), the front-slot capping
\* step returns its input unchanged and the narrative suppression step returns
\* the lines of the analysis unchanged.
C13_EmptyHistoryIsIdentity ==
    recent = NoRecent =>
        /\ pc = "penalized" => penalized = scored
        /\ pc = "deprioritized" => ranked = penalized /\ ranked = scored
        /\ pc = "suppressed" => analysis = CuratedAnalysis

\* a run whose look-back is off while the store holds an earlier report
C13_Witness ==
    /\ pc = "suppressed"
    /\ recent = NoRecent
    /\ store # <<>>
    /\ settings.novelty_repeat_penalty > 0
    /\ Len(scored) >= 2
    /\ penalized = scored
    /\ analysis.breakthroughs # <<>>

-----------------------------------------------------------------------------
(* Claims on the attribution of sources, checked under SpecRefs *)

\* the sources the line of the state is matched against
CitedSources == _source_entries(top_items)

\* the match score of a source for the line of the state
CitedScore(entry) ==
    MatchScore((FindTokens(Lower(_strip_bullet_prefix(cited_line)), 1, <<>>) \ Stopwords)
                   \cup AliasTokens(_strip_bullet_prefix(cited_line)),
               TickerLike(_strip_bullet_prefix(cited_line)),
               _category_hint(_strip_bullet_prefix(cited_line)), entry)

\* source e goes before source f: higher match score, or the same and a lower index
CitedBefore(e, f) ==
    \/ CitedScore(e) > CitedScore(f)
    \/ CitedScore(e) = CitedScore(f) /\ e.idx < f.idx

\* the same items with another relevance score
Rescored(items, score) == [k \in 1..Len(items) |-> [items[k] EXCEPT !.score = score]]

\* C14: _find_related_source_refs returns at most limit references, each the
\* (index, url) of a source whose match score is above 0, in the order of the
\* match score descending and of the index ascending on a tie; no source that
\* goes before a returned one is left out, and none with a match score above 0
\* is left out while there is room; the references are the same whatever the
\* relevance scores of the items are
C14_RefsByMatchScore ==
    pc = "outlined" =>
        /\ Len(source_refs) <= cited_limit
        /\ \A p \in 1..Len(source_refs) :
              /\ source_refs[p].idx \in 1..Len(CitedSources)
              /\ source_refs[p].url = CitedSources[source_refs[p].idx].item.url
              /\ CitedScore(CitedSources[source_refs[p].idx]) > 0
        /\ \A p, q \in 1..Len(source_refs) :
              p < q => CitedBefore(CitedSources[source_refs[p].idx], CitedSources[source_refs[q].idx])
        /\ \A k \in 1..Len(CitedSources) :
              (CitedScore(CitedSources[k]) > 0 /\ \A p \in 1..Len(source_refs) : source_refs[p].idx # k)
                  => /\ Len(source_refs) = cited_limit
                     /\ \A p \in 1..Len(source_refs) :
                           CitedBefore(CitedSources[source_refs[p].idx], CitedSources[k])
        /\ \A score \in {0, 9000} :
              _find_related_source_refs(cited_line, _source_entries(Rescored(top_items, score)), cited_limit)
                  = source_refs

\* the line with the ticker MSFT and the 10-Q is matched against an unrelated
\* item of relevance 9.0 at index 1 and the MSFT earnings item of relevance 5.0
\* at index 2, and the MSFT item is cited first
C14_Witness ==
    /\ pc = "outlined"
    /\ cited_line = Line_Msft
    /\ Len(top_items) = 2
    /\ top_items[1].title = R_Plant.title
    /\ top_items[2].title = R_Msft.title
    /\ top_items[1].score > top_items[2].score
    /\ source_refs = <<[idx |-> 2, url |-> U_a_http], [idx |-> 1, url |-> U_b]>>

\* factual_base of build_markdown: the lines handed to _append_refs
FactualBase == _merge_followups(analysis.breakthroughs, analysis.investment_signals)

\* the lines of factual_base that have text after their bullet marker
NonBlankBase == SelectSeq(FactualBase, LAMBDA line : _strip_bullet_prefix(line) # <<>>)

\* what follows the first n characters of a line
After(line, n) == SubSeq(line, n + 1, Len(line))

\* a citation: nothing, or a text in fullwidth parentheses
IsCitationSuffix(suffix) ==
    \/ suffix = <<>>
    \/ /\ Len(suffix) >= 2
       /\ suffix[1] = FullwidthLeftParen
       /\ suffix[Len(suffix)] = FullwidthRightParen

\* a cited source or an item outside the cited ones has a token, a ticker or
\* the category of the line
HasMatchingSource(cleaned) ==
    \/ _find_related_source_refs(cleaned, _source_entries(top_items), Len(top_items)) # <<>>
    \/ _find_external_source_ref(cleaned, _external_source_entries(ranked,
           {top_items[k].url : k \in 1..Len(top_items)} \ {<<>>})) # <<>>

\* C15: _append_refs returns one line for every line of its input that has
\* text after its bullet marker, in the order of the input; the line is that
\* text followed by a citation, which is empty exactly when no source matches
\* the line
C15_LinesKept ==
    pc = "cited" =>
        /\ Len(factual_items) = Len(NonBlankBase)
        /\ \A k \in 1..Len(factual_items) :
              /\ Len(factual_items[k]) >= Len(_strip_bullet_prefix(NonBlankBase[k]))
              /\ Head_(factual_items[k], Len(_strip_bullet_prefix(NonBlankBase[k])))
                     = _strip_bullet_prefix(NonBlankBase[k])
              /\ IsCitationSuffix(After(factual_items[k], Len(_strip_bullet_prefix(NonBlankBase[k]))))
              /\ After(factual_items[k], Len(_strip_bullet_prefix(NonBlankBase[k]))) = <<>>
                     <=> ~HasMatchingSource(_strip_bullet_prefix(NonBlankBase[k]))

\* two lines went in, the first with a bullet marker and a source, the second
\* with no source; both came out, the first cited and the second as it was
C15_Witness ==
    /\ pc = "cited"
    /\ FactualBase = <<_strip_bullet_prefix(Line_Msft), Line_Quiet>>
    /\ Len(factual_items) = 2
    /\ Len(factual_items[1]) > Len(_strip_bullet_prefix(Line_Msft))
    /\ factual_items[2] = Line_Quiet

-----------------------------------------------------------------------------
(* Claims on the runs that share the report store, checked under SpecRuns *)

\* run r has read the history of the store and has not written its report yet
InFlight(r) == runs[r].pc = "in_flight"

\* C16: no two runs for the same report date are between their read of the
\* history and their upsert of the report at the same time
C16_SingleFlight ==
    \A r1, r2 \in DOMAIN runs :
        (r1 # r2 /\ InFlight(r1) /\ InFlight(r2)) => runs[r1].date_key # runs[r2].date_key

-----------------------------------------------------------------------------
(* Claims on a run with no input, checked under Spec *)

\* C17: a run that has no input item stores a report with no top item and with
\* no line in any of the four narrative sections, whatever provider the
\* analyzer has
C17_EmptyInputEmptyReport ==
    (pc = "done" /\ all_items = <<>>) =>
        /\ store[date_key].top_items = <<>>
        /\ NarrativeLines(store[date_key].analysis) = <<>>

-----------------------------------------------------------------------------
(* Claims on _cap_source_items, checked under SpecCap *)

\* the items of the source among the first k items of the request
OfSourceUpTo(k) == {i \in 1..k : cap_request.items[i].source = cap_request.source_name}

\* the items of the source in a list
OfSource(items) == SelectSeq(items, LAMBDA item : item.source = cap_request.source_name)

\* C18: with cap >= 0, _cap_source_items returns the items that are of another
\* source or among the first cap items of the source, in the order of the
\* input, so that min(cap, count) items of the source are left and every
\* other item is kept; with cap < 0 it returns its input
C18_CapExact ==
    pc = "cap_done" =>
        IF cap_request.cap < 0 THEN capped = cap_request.items
        ELSE /\ capped = SelectSeq(cap_request.items,
                             LAMBDA item : \/ item.source # cap_request.source_name
                                           \/ Cardinality(OfSourceUpTo(item.id)) <= cap_request.cap)
             /\ Len(OfSource(capped)) = Min(cap_request.cap, Len(OfSource(cap_request.items)))
             /\ SelectSeq(capped, LAMBDA item : item.source # cap_request.source_name)
                    = SelectSeq(cap_request.items, LAMBDA item : item.source # cap_request.source_name)

\* three items, the first and the last of the source, and a cap of 1: the
\* first and the item of the other source are returned
C18_Witness ==
    /\ pc = "cap_done"
    /\ cap_request.cap = 1
    /\ Len(cap_request.items) = 3
    /\ OfSourceUpTo(3) = {1, 3}
    /\ capped = SubSeq(cap_request.items, 1, 2)

-----------------------------------------------------------------------------
(* Claims on the history of a run, checked under SpecHistory and SpecNovelty *)

\* the dates of the stored reports before the report date of the run
DatesBefore == {d \in DOMAIN store : d < date_key}

\* the lookback latest of them, all of them if there are fewer
LastBefore(lookback) ==
    {d \in DatesBefore : Cardinality({e \in DatesBefore : e > d}) < lookback}

\* C19: with a lookback K > 0, the history of a run for the date D is made of
\* the URLs, titles and lines of the K latest stored reports dated before D
\* (of all of them if there are fewer than K), and of no other report
C19_LastKBefore ==
    (pc = "collected" /\ settings.novelty_lookback_reports > 0) =>
        /\ recent.urls = UNION {ReportSignatures(store[d]).urls :
                                   d \in LastBefore(settings.novelty_lookback_reports)}
        /\ recent.titles = UNION {ReportSignatures(store[d]).titles :
                                     d \in LastBefore(settings.novelty_lookback_reports)}
        /\ recent.analysis_lines = UNION {ReportSignatures(store[d]).analysis_lines :
                                             d \in LastBefore(settings.novelty_lookback_reports)}

\* the canonical URL of the item is the canonical URL of a top item of one of
\* the reports the history was collected from
CanonicalInHistory(item) ==
    /\ _canonical_url(item.url) # <<>>
    /\ _canonical_url(item.url) \in {_canonical_url(u) : u \in recent.urls}

\* the score score_items gave to an item of the penalized list
ScoreBefore(item) == scored[CHOOSE k \in 1..Len(scored) : scored[k].id = item.id].score

CanonicalFreshCount(items) == Cardinality({k \in 1..Len(items) : ~CanonicalInHistory(items[k])})

CanonicalReusedInFront(items, size) ==
    Cardinality({p \in 1..Min(size, Len(items)) : CanonicalInHistory(items[p])})

\* C20: an item whose URL has the canonical form of the URL of a top item of
\* one of the last K reports is a repeat: the penalty is taken off its score,
\* and it counts among the repeated items the front window admits
C20_CanonicalRepeat ==
    /\ (pc = "penalized" /\ novelty.penalty > 0) =>
          \A p \in 1..Len(penalized) :
              CanonicalInHistory(penalized[p])
                  => penalized[p].score <= ScoreBefore(penalized[p]) - novelty.penalty
    /\ ( /\ pc = "deprioritized"
         /\ novelty.max_reused_in_front >= 0
         /\ novelty.front_size >= 1
         /\ CanonicalFreshCount(penalized) >= novelty.front_size - novelty.max_reused_in_front )
          => CanonicalReusedInFront(ranked, novelty.front_size) <= novelty.max_reused_in_front

-----------------------------------------------------------------------------
(* Claims on the front window of _deprioritize_recent_urls, checked under SpecNovelty *)

\* the items of a list that are historical-URL repeats, in the order of the list
RepeatsOf(items) == SelectSeq(items, LAMBDA item : InHistory(item))

\* the items of a list that are not, in the order of the list
FreshOf(items) == SelectSeq(items, LAMBDA item : ~InHistory(item))

\* fewer fresh items than the front window needs beside the repeats it admits
UnderFilled ==
    /\ novelty.max_reused_in_front >= 0
    /\ novelty.front_size >= 1
    /\ FreshCount(penalized) < novelty.front_size - novelty.max_reused_in_front

\* C21: when fewer than front_size - max_reused_in_front fresh items exist,
\* the output of _deprioritize_recent_urls has every item of its input, its
\* first min(front_size, n) places hold every fresh item and repeats for the
\* rest, the repeats come in the order they had, and when every item is a
\* repeat the output is the input
C21_Backfill ==
    (pc = "deprioritized" /\ UnderFilled) =>
        /\ Len(ranked) = Len(penalized)
        /\ ReusedInFront(ranked, novelty.front_size)
               = Min(novelty.front_size, Len(penalized)) - FreshCount(penalized)
        /\ RepeatsOf(ranked) = RepeatsOf(penalized)
        /\ FreshCount(penalized) = 0 => ranked = penalized

\* one fresh item after two repeats, a window of three that admits no repeat:
\* the fresh item went first and the two repeats filled the window
C21_Witness ==
    /\ pc = "deprioritized"
    /\ UnderFilled
    /\ Len(penalized) = 3
    /\ FreshCount(penalized) = 1
    /\ InHistory(penalized[1])
    /\ ~InHistory(ranked[1])
    /\ ReusedInFront(ranked, novelty.front_size) > novelty.max_reused_in_front

\* the place in ranked of the item at the place k of penalized
RankedPlace(k) == CHOOSE p \in 1..Len(ranked) : ranked[p].id = penalized[k].id

\* C22: _deprioritize_recent_urls keeps the order of the fresh items among
\* themselves and of the historical-URL repeats among themselves, and a fresh
\* item that was before a repeat is still before it
C22_OrderWithinPartitions ==
    pc = "deprioritized" =>
        /\ FreshOf(ranked) = FreshOf(penalized)
        /\ RepeatsOf(ranked) = RepeatsOf(penalized)
        /\ \A k, m \in 1..Len(penalized) :
              (k < m /\ ~InHistory(penalized[k]) /\ InHistory(penalized[m]))
                  => RankedPlace(k) < RankedPlace(m)

\* a repeat, a fresh item and a repeat went in, with enough fresh items for
\* the window; the fresh item came out first, the two repeats after it in
\* their order
C22_Witness ==
    /\ pc = "deprioritized"
    /\ ~UnderFilled
    /\ novelty.max_reused_in_front >= 0
    /\ Len(penalized) = 3
    /\ InHistory(penalized[1]) /\ ~InHistory(penalized[2]) /\ InHistory(penalized[3])
    /\ ranked = <<penalized[2], penalized[1], penalized[3]>>

-----------------------------------------------------------------------------
(* Claims on the items sent to the external scorer, checked under SpecBatch *)

\* the reply has a row the code reads for the item of this id
HasRow(id) == \E k \in 1..Len(llm.rows) : RowUsable(llm.rows[k]) /\ llm.rows[k].id.v = id

\* the external scorer was called and answered with a list of scores
ExternalAnswered ==
    /\ pc = "scored"
    /\ LlmCalled(unique, settings, llm)
    /\ ~LlmRaised
    /\ llm.content = "scores"

\* C23: on the path of the external scorer, an item that was not sent or that
\* has no row in the response ends with its local heuristic score, whatever
\* rows the response contains
C23_UncoveredKeepLocalScore ==
    ExternalAnswered =>
        \A p \in 1..Len(scored) :
            (scored[p].id \notin payload \/ ~HasRow(scored[p].id))
                => scored[p].score = _heuristic_score(scored[p])

\* C24: the items sent to the external scorer are at most
\* llm_scoring_max_items, and when the batch is larger than that cap they
\* are the ones with the highest local heuristic scores
C24_SentWithinCap ==
    (pc = "scored" /\ LlmCalled(unique, settings, llm)) =>
        /\ Cardinality(payload) <= settings.llm_scoring_max_items
        /\ Len(unique) > settings.llm_scoring_max_items =>
              \A i \in payload, j \in (1..Len(unique)) \ payload :
                  _heuristic_score(unique[i]) >= _heuristic_score(unique[j])

-----------------------------------------------------------------------------
(* Claims on the merge of dedupe_items, checked under SpecDedupe *)

\* the input items whose title is empty after _normalize_title
Untitled == {k \in 1..Len(all_items) : _normalize_title(all_items[k].title) = <<>>}

\* the input item k is in the unique list
Survives(k) == \E p \in 1..Len(unique) : unique[p].id = k

\* the input items j and k have the same non-empty canonical URL
SharesUrl(j, k) ==
    /\ j # k
    /\ _canonical_url(all_items[k].url) # <<>>
    /\ _canonical_url(all_items[j].url) = _canonical_url(all_items[k].url)

\* C25 as stated: an item whose title is empty or whitespace-only never
\* matches another item: it is in the unique list
C25_EmptyTitleNeverMatches ==
    pc = "deduped" => \A k \in Untitled : Survives(k)

\* C25: an item whose title normalizes to the empty string is never matched
\* on its title. It is dropped only when an earlier input item has its
\* non-empty canonical URL, and when no other input item has that URL it is in
\* the unique list with the fields it came with.
C25_EmptyTitleMatchesByUrlOnly ==
    pc = "deduped" =>
        \A k \in Untitled :
            /\ ~Survives(k) => \E j \in 1..(k - 1) : SharesUrl(j, k)
            /\ (\A j \in 1..Len(all_items) : ~SharesUrl(j, k))
                  => \E p \in 1..Len(unique) : unique[p] = all_items[k]

C25_Witness ==
    /\ pc = "deduped"
    /\ Len(all_items) = 3
    /\ Untitled = {2, 3}
    /\ ~Survives(2)
    /\ Survives(3)
    /\ stats.duplicates_removed = 1

\* C26: dedupe_items keeps the first-seen item of every duplicate group and
\* never reorders: the unique list is a subsequence of the input (the same
\* items in the same relative order), every dropped item comes after a
\* survivor, and raw_items = unique_items + duplicates_removed.
C26_FirstSeenSubsequence ==
    pc = "deduped" =>
        /\ \A p \in 1..Len(unique) :
              /\ unique[p].id \in 1..Len(all_items)
              /\ unique[p].title = all_items[unique[p].id].title
              /\ unique[p].source = all_items[unique[p].id].source
        /\ \A p, q \in 1..Len(unique) : p < q => unique[p].id < unique[q].id
        /\ \A k \in 1..Len(all_items) :
              ~Survives(k) => \E p \in 1..Len(unique) :
                                  /\ unique[p].id < k
                                  /\ _is_duplicate(all_items[k], unique[p])
        /\ stats.raw_items = Len(all_items)
        /\ stats.unique_items = Len(unique)
        /\ stats.raw_items = stats.unique_items + stats.duplicates_removed

C26_Witness ==
    /\ pc = "deduped"
    /\ Len(all_items) = 3
    /\ Len(unique) = 2
    /\ unique[1].id = 1
    /\ unique[2].id = 3
    /\ unique[1] # all_items[1]
    /\ stats.duplicates_removed = 1

\* the unique list when the loop of dedupe_items reaches the input item k
UniqueBefore(k) ==
    DedupeLoop(Head_(all_items, k - 1), 1, [unique |-> <<>>, duplicates_removed |-> 0]).unique

\* the id of the survivor that the input item k was merged into, k itself
\* for an item that was appended
SurvivorOf(k) ==
    LET dup == DupIndex(all_items[k], UniqueBefore(k))
    IN  IF dup = 0 THEN k ELSE UniqueBefore(k)[dup].id

\* the input items that ended in the survivor at place p
MergedInto(p) == {k \in 1..Len(all_items) : SurvivorOf(k) = unique[p].id}

\* the earliest of the longest summaries of a set of input items
LongestSummary(group) ==
    LET k == CHOOSE a \in group :
                 \A b \in group :
                     \/ Len(all_items[a].summary) > Len(all_items[b].summary)
                     \/ Len(all_items[a].summary) = Len(all_items[b].summary) /\ a <= b
    IN  all_items[k].summary

\* C27: after dedupe_items the summary of every surviving item has the
\* maximum length among the summaries of the survivor and of the input items
\* merged into it, and on equal length it is the earliest of them, in whatever
\* order the duplicates arrive.
C27_LongestSummaryKept ==
    pc = "deduped" =>
        \A p \in 1..Len(unique) :
            /\ unique[p].id \in MergedInto(p)
            /\ \A k \in MergedInto(p) : Len(unique[p].summary) >= Len(all_items[k].summary)
            /\ unique[p].summary = LongestSummary(MergedInto(p))

\* three items in one group: the longest summary arrives second and the
\* third one is as long as the first
C27_Witness ==
    /\ pc = "deduped"
    /\ Len(all_items) = 3
    /\ Len(unique) = 1
    /\ MergedInto(1) = {1, 2, 3}
    /\ Len(all_items[1].summary) = 1
    /\ Len(all_items[2].summary) > 1
    /\ all_items[3].summary # all_items[1].summary
    /\ Len(all_items[3].summary) = 1
    /\ unique[1].summary = all_items[2].summary

-----------------------------------------------------------------------------
(* Claims on the forced attribution of _append_refs, checked under SpecForce *)

\* the one line of the input without its bullet marker, and what
\* _append_refs wrote after it
ForcedCleaned == _strip_bullet_prefix(cited_line)

ForcedSuffix == After(factual_items[1], Len(ForcedCleaned))

\* the text that opens a supplementary-source suffix and the one that opens a
\* numbered citation
SupplementaryOpen == <<"U+FF08", "U+6765", "U+6E90", "U+8865", "U+5145", ":", " ", "[", "U+5916", "U+90E8", "U+94FE", "U+63A5", "]", "(">>

NumberedOpen == <<"U+FF08", "U+6765", "U+6E90", ":", " ", "[", "#">>

TopSourceUrls == {top_items[k].url : k \in 1..Len(top_items)} \ {<<>>}

\* a top source has a token, a ticker or the category of the line
TopCandidate == _find_related_source_refs(ForcedCleaned, _source_entries(top_items), Len(top_items)) # <<>>

\* the items of the fallback pool that the suffix can have its URL from
SupplementaryOrigins ==
    {k \in 1..Len(ranked) :
        /\ ForcedSuffix = ExternalSuffix(ranked[k].url)
        /\ ExternalScore(ExternalTokens(ForcedCleaned), [item |-> ranked[k], blob |-> SourceBlob(ranked[k])]) > 0}

\* C28: a line receives the supplementary-source suffix only if force_source
\* is set and no top-source candidate scored above 0; the suffix carries one
\* URL, that of a fallback item with match score > 0 whose URL is not the URL
\* of a top-source entry; no line carries both a numbered citation and a
\* supplementary-source suffix.
C28_ForcedAttribution ==
    (pc = "cited" /\ factual_items # <<>>) =>
        /\ StartsWith(ForcedSuffix, SupplementaryOpen) =>
              /\ force_attribution
              /\ ~TopCandidate
              /\ SupplementaryOrigins # {}
              /\ \A k \in SupplementaryOrigins : ranked[k].url \notin TopSourceUrls
        /\ ~(Contains(ForcedSuffix, NumberedOpen) /\ Contains(ForcedSuffix, SupplementaryOpen))

-----------------------------------------------------------------------------
(* Claims on the rows of a snapshot, checked under SpecSnapshot *)

NotAText == {"missing", "null"}

\* C29: loading a snapshot row never raises: _deserialize_item yields the
\* empty string for a missing or invalid (null) title, url, source or summary,
\* score 0 for a missing or non-numeric score, and no timestamp for a missing
\* or unparsable published_at.
C29_SafeDefaults ==
    pc = "loaded" =>
        /\ loaded_item.kind = "item"
        /\ snapshot_row.title.kind \in NotAText => loaded_item.item.title = <<>>
        /\ snapshot_row.url.kind \in NotAText => loaded_item.item.url = <<>>
        /\ snapshot_row.source.kind \in NotAText => loaded_item.item.source = <<>>
        /\ snapshot_row.summary.kind \in NotAText => loaded_item.item.summary = <<>>
        /\ (snapshot_row.score.kind = "missing" \/ ~PyFloat(snapshot_row.score).ok)
              => (loaded_item.item.score = 0 /\ ~loaded_item.score_is_nan)
        /\ (~Truthy(snapshot_row.published_at)
               \/ ~fromisoformat(ReplaceZ(PyStr(snapshot_row.published_at))).ok)
              => loaded_item.item.published_at = 0

-----------------------------------------------------------------------------
(* Claims on the front window after the SEC cap, checked under SpecFront *)

\* C30: in _render_and_store the front-window cap survives the SEC-source
\* cap: when at least front_size - novelty_max_reused_items_in_front fresh
\* items remain, the first front_size items of the final ranked list hold at
\* most novelty_max_reused_items_in_front items whose URL is in the history.
C30_FrontCapAfterSecCap ==
    ( /\ pc = "capped"
      /\ novelty.max_reused_in_front >= 0
      /\ FreshCount(ranked) >= novelty.front_size - novelty.max_reused_in_front )
        => ReusedInFront(ranked, novelty.front_size) <= novelty.max_reused_in_front

====
